---- MODULE Spec2Model ----
(***************************************************************************)
(* Grain-128 AEADv2 as implemented by the header-only library              *)
(* itzmeanjan/grain-128aead.                                               *)
(*                                                                         *)
(* Two builds of the library are modelled side by side:                    *)
(*   "byte"  the byte-parallel AEAD driver (include/aead.hpp, lines 1-334) *)
(*           on top of the 8-wide primitives;                              *)
(*   "bit"   the bit-serial AEAD driver (unnamed/part_005), whose          *)
(*           initialize is 8-wide and whose absorb / encrypt / decrypt /   *)
(*           padding loops clock the cipher one bit at a time.             *)
(* Memory is modelled as the code lays it out: every register and buffer   *)
(* is a sequence of bytes (uint8_t), index 0 of the code being index 1 of  *)
(* the sequence.                                                           *)
(***************************************************************************)
EXTENDS Integers, Sequences, FiniteSets, TLC

(***************************************************************************)
(* uint8_t arithmetic of the C++ code                                      *)
(***************************************************************************)

\* 2^n for the shift amounts the code uses (n in 0..8)
Pow2 == <<1, 2, 4, 8, 16, 32, 64, 128, 256>>

\* x >> n on an unsigned value
Shr(x, n) == x \div Pow2[n + 1]

\* static_cast<uint8_t>(x << n): the left shift happens in int, the store
\* into a uint8_t keeps the low 8 bits
Shl8(x, n) == (x * Pow2[n + 1]) % 256

RECURSIVE BitOp(_, _, _, _)
\* bitwise combination of the low n bits of a and b under truth table tt
BitOp(tt, a, b, n) ==
  IF n = 0 THEN 0
  ELSE tt[(a % 2) + 1][(b % 2) + 1] + 2 * BitOp(tt, a \div 2, b \div 2, n - 1)

XorNib == [a \in 0..15 |-> [b \in 0..15 |-> BitOp(<<<<0, 1>>, <<1, 0>>>>, a, b, 4)]]
AndNib == [a \in 0..15 |-> [b \in 0..15 |-> BitOp(<<<<0, 0>>, <<0, 1>>>>, a, b, 4)]]
OrNib  == [a \in 0..15 |-> [b \in 0..15 |-> BitOp(<<<<0, 1>>, <<1, 1>>>>, a, b, 4)]]

\* a ^ b, a & b, a | b for every pair of uint8_t, nibble by nibble
XorByte ==
  [a \in 0..255 |->
     [b \in 0..255 |-> XorNib[a % 16][b % 16] + 16 * XorNib[a \div 16][b \div 16]]]
AndByte ==
  [a \in 0..255 |->
     [b \in 0..255 |-> AndNib[a % 16][b % 16] + 16 * AndNib[a \div 16][b \div 16]]]
OrByte ==
  [a \in 0..255 |->
     [b \in 0..255 |-> OrNib[a % 16][b % 16] + 16 * OrNib[a \div 16][b \div 16]]]

\* a ^ b, a & b, a | b on uint8_t
Xor8(a, b) == XorByte[a][b]
And8(a, b) == AndByte[a][b]
Or8(a, b)  == OrByte[a][b]

\* arr[i] of the code (0-based)
At(arr, i) == arr[i + 1]

\* The element of a one-element set.  { e(x) : x \in {v} } names the value
\* of v once, the way a local variable of the code holds it.
Only(S) == CHOOSE x \in S : TRUE

(***************************************************************************)
(* grain_128: bit and byte windows of a register                           *)
(***************************************************************************)

\* compute_index: (byte offset, bit offset) of a bit index
compute_index(idx) == <<idx \div 8, idx % 8>>

\* get_8bits that returns the byte bit sidx lies in
get_8bits_whole_byte(arr, sidx) == At(arr, sidx \div 8)

\* get_8bits: the 8 bits sidx .. sidx+7 of a byte array
get_8bits(arr, sidx) ==
  LET eidx  == sidx + 7
      sidx_ == compute_index(sidx)
      eidx_ == compute_index(eidx)
      lo    == Shr(At(arr, sidx_[1]), sidx_[2])
      hi    == Shl8(At(arr, eidx_[1]), 7 - eidx_[2])
      flg   == (sidx % 8) = 0
  IN  Or8(hi, IF flg THEN 0 ELSE lo)

\* get_bit: one bit, placed in the least significant position
get_bit(arr, idx) == Shr(At(arr, idx[1]), idx[2]) % 2

\* set_bit that stores the bit without keeping the other 7 bits of the byte
set_bit_clobber(arr, bit, idx) ==
  [arr EXCEPT ![idx[1] + 1] = Shl8(bit, idx[2])]

\* set_bit: arr with bit idx set to `bit`, the other 7 bits of the byte kept
set_bit(arr, bit, idx) ==
  LET byte  == At(arr, idx[1])
      mask0 == Shl8(255, idx[2] + 1)
      mask1 == Shr(255, 8 - idx[2])
      msb   == And8(byte, mask0)
      lsb   == And8(byte, mask1)
  IN  [arr EXCEPT ![idx[1] + 1] = Or8(Or8(msb, Shl8(bit, idx[2])), lsb)]

(***************************************************************************)
(* grain_128: 8 clocks at a time                                           *)
(***************************************************************************)

\* h8: h(x) for 8 consecutive clocks
h8(s) ==
  LET x0 == get_8bits(s.nfsr, 12)
      x1 == get_8bits(s.lfsr, 8)
      x2 == get_8bits(s.lfsr, 13)
      x3 == get_8bits(s.lfsr, 20)
      x4 == get_8bits(s.nfsr, 95)
      x5 == get_8bits(s.lfsr, 42)
      x6 == get_8bits(s.lfsr, 60)
      x7 == get_8bits(s.lfsr, 79)
      x8 == get_8bits(s.lfsr, 94)
      x0x1   == And8(x0, x1)
      x2x3   == And8(x2, x3)
      x4x5   == And8(x4, x5)
      x6x7   == And8(x6, x7)
      x0x4x8 == And8(And8(x0, x4), x8)
  IN  Xor8(Xor8(Xor8(Xor8(x0x1, x2x3), x4x5), x6x7), x0x4x8)

\* ksb8: 8 pre-output bits, bit k being the pre-output bit of clock k
ksb8(s) ==
  LET hx  == h8(s)
      s93 == get_8bits(s.lfsr, 93)
      b2  == get_8bits(s.nfsr, 2)
      b15 == get_8bits(s.nfsr, 15)
      b36 == get_8bits(s.nfsr, 36)
      b45 == get_8bits(s.nfsr, 45)
      b64 == get_8bits(s.nfsr, 64)
      b73 == get_8bits(s.nfsr, 73)
      b89 == get_8bits(s.nfsr, 89)
      bt  == Xor8(Xor8(Xor8(Xor8(Xor8(Xor8(b2, b15), b36), b45), b64), b73), b89)
  IN  Xor8(Xor8(hx, s93), bt)

\* l8 whose last window starts at bit 97
l8_tap_97(s) ==
  LET s0  == get_8bits(s.lfsr, 0)
      s7  == get_8bits(s.lfsr, 7)
      s38 == get_8bits(s.lfsr, 38)
      s70 == get_8bits(s.lfsr, 70)
      s81 == get_8bits(s.lfsr, 81)
      s96 == get_8bits(s.lfsr, 97)
  IN  Xor8(Xor8(Xor8(Xor8(Xor8(s0, s7), s38), s70), s81), s96)

\* l8: the 8 new LFSR bits [120..128)
l8(s) ==
  LET s0  == get_8bits(s.lfsr, 0)
      s7  == get_8bits(s.lfsr, 7)
      s38 == get_8bits(s.lfsr, 38)
      s70 == get_8bits(s.lfsr, 70)
      s81 == get_8bits(s.lfsr, 81)
      s96 == get_8bits(s.lfsr, 96)
  IN  Xor8(Xor8(Xor8(Xor8(Xor8(s0, s7), s38), s70), s81), s96)

\* f8: the 8 new NFSR bits [120..128)
f8(s) ==
  LET s0  == get_8bits(s.lfsr, 0)
      b0  == get_8bits(s.nfsr, 0)
      b26 == get_8bits(s.nfsr, 26)
      b56 == get_8bits(s.nfsr, 56)
      b91 == get_8bits(s.nfsr, 91)
      b96 == get_8bits(s.nfsr, 96)
      b3  == get_8bits(s.nfsr, 3)
      b67 == get_8bits(s.nfsr, 67)
      b11 == get_8bits(s.nfsr, 11)
      b13 == get_8bits(s.nfsr, 13)
      b17 == get_8bits(s.nfsr, 17)
      b18 == get_8bits(s.nfsr, 18)
      b27 == get_8bits(s.nfsr, 27)
      b59 == get_8bits(s.nfsr, 59)
      b40 == get_8bits(s.nfsr, 40)
      b48 == get_8bits(s.nfsr, 48)
      b61 == get_8bits(s.nfsr, 61)
      b65 == get_8bits(s.nfsr, 65)
      b68 == get_8bits(s.nfsr, 68)
      b84 == get_8bits(s.nfsr, 84)
      b22 == get_8bits(s.nfsr, 22)
      b24 == get_8bits(s.nfsr, 24)
      b25 == get_8bits(s.nfsr, 25)
      b70 == get_8bits(s.nfsr, 70)
      b78 == get_8bits(s.nfsr, 78)
      b82 == get_8bits(s.nfsr, 82)
      b88 == get_8bits(s.nfsr, 88)
      b92 == get_8bits(s.nfsr, 92)
      b93 == get_8bits(s.nfsr, 93)
      b95 == get_8bits(s.nfsr, 95)
      t0  == Xor8(Xor8(Xor8(Xor8(b0, b26), b56), b91), b96)
      t1  == And8(b3, b67)
      t2  == And8(b11, b13)
      t3  == And8(b17, b18)
      t4  == And8(b27, b59)
      t5  == And8(b40, b48)
      t6  == And8(b61, b65)
      t7  == And8(b68, b84)
      t8  == And8(And8(b22, b24), b25)
      t9  == And8(And8(b70, b78), b82)
      t10 == And8(And8(And8(b88, b92), b93), b95)
      fbt == Xor8(Xor8(Xor8(Xor8(Xor8(Xor8(Xor8(Xor8(Xor8(Xor8(
               t0, t1), t2), t3), t4), t5), t6), t7), t8), t9), t10)
  IN  Xor8(s0, fbt)

\* update8: drop bits [0..8), shift down by one byte, append bit120 as byte 15
update8(reg, bit120) == Append(Tail(reg), bit120)

update_lfsr8(s, s120) == [s EXCEPT !.lfsr = update8(s.lfsr, s120)]
update_nfsr8(s, b120) == [s EXCEPT !.nfsr = update8(s.nfsr, b120)]

\* The start indices get_8bits is called with on the lfsr, in h8, ksb8, l8, f8
lfsr_windows == {8, 13, 20, 42, 60, 79, 94} \cup {93} \cup {0, 7, 38, 70, 81, 96}

\* The start indices get_8bits is called with on the nfsr, in h8, ksb8, f8
nfsr_windows ==
  {12, 95} \cup {2, 15, 36, 45, 64, 73, 89}
  \cup {0, 26, 56, 91, 96, 3, 67, 11, 13, 17, 18, 27, 59, 40, 48, 61, 65, 68, 84,
        22, 24, 25, 70, 78, 82, 88, 92, 93, 95}

(***************************************************************************)
(* grain_128: one clock at a time                                          *)
(***************************************************************************)

\* h: h(x) = x0x1 + x2x3 + x4x5 + x6x7 + x0x4x8
h(s) ==
  LET x0 == get_bit(s.nfsr, compute_index(12))
      x1 == get_bit(s.lfsr, compute_index(8))
      x2 == get_bit(s.lfsr, compute_index(13))
      x3 == get_bit(s.lfsr, compute_index(20))
      x4 == get_bit(s.nfsr, compute_index(95))
      x5 == get_bit(s.lfsr, compute_index(42))
      x6 == get_bit(s.lfsr, compute_index(60))
      x7 == get_bit(s.lfsr, compute_index(79))
      x8 == get_bit(s.lfsr, compute_index(94))
      x0x1   == And8(x0, x1)
      x2x3   == And8(x2, x3)
      x4x5   == And8(x4, x5)
      x6x7   == And8(x6, x7)
      x0x4x8 == And8(And8(x0, x4), x8)
  IN  Xor8(Xor8(Xor8(Xor8(x0x1, x2x3), x4x5), x6x7), x0x4x8)

\* ksb: the pre-output bit yt = h(x) + s93 + b2 + b15 + b36 + b45 + b64 + b73 + b89
ksb(s) ==
  LET hx  == h(s)
      s93 == get_bit(s.lfsr, compute_index(93))
      b2  == get_bit(s.nfsr, compute_index(2))
      b15 == get_bit(s.nfsr, compute_index(15))
      b36 == get_bit(s.nfsr, compute_index(36))
      b45 == get_bit(s.nfsr, compute_index(45))
      b64 == get_bit(s.nfsr, compute_index(64))
      b73 == get_bit(s.nfsr, compute_index(73))
      b89 == get_bit(s.nfsr, compute_index(89))
      bt  == Xor8(Xor8(Xor8(Xor8(Xor8(Xor8(b2, b15), b36), b45), b64), b73), b89)
  IN  Xor8(Xor8(hx, s93), bt)

\* l with tap 69 in the place of tap 70
l_tap_69(s) ==
  LET s0  == get_bit(s.lfsr, compute_index(0))
      s7  == get_bit(s.lfsr, compute_index(7))
      s38 == get_bit(s.lfsr, compute_index(38))
      s70 == get_bit(s.lfsr, compute_index(69))
      s81 == get_bit(s.lfsr, compute_index(81))
      s96 == get_bit(s.lfsr, compute_index(96))
  IN  Xor8(Xor8(Xor8(Xor8(Xor8(s0, s7), s38), s70), s81), s96)

\* l: the new LFSR bit 127
l(s) ==
  LET s0  == get_bit(s.lfsr, compute_index(0))
      s7  == get_bit(s.lfsr, compute_index(7))
      s38 == get_bit(s.lfsr, compute_index(38))
      s70 == get_bit(s.lfsr, compute_index(70))
      s81 == get_bit(s.lfsr, compute_index(81))
      s96 == get_bit(s.lfsr, compute_index(96))
  IN  Xor8(Xor8(Xor8(Xor8(Xor8(s0, s7), s38), s70), s81), s96)

\* f: the new NFSR bit 127, s0 + F(Bt)
f(s) ==
  LET s0  == get_bit(s.lfsr, compute_index(0))
      b0  == get_bit(s.nfsr, compute_index(0))
      b26 == get_bit(s.nfsr, compute_index(26))
      b56 == get_bit(s.nfsr, compute_index(56))
      b91 == get_bit(s.nfsr, compute_index(91))
      b96 == get_bit(s.nfsr, compute_index(96))
      b3  == get_bit(s.nfsr, compute_index(3))
      b67 == get_bit(s.nfsr, compute_index(67))
      b11 == get_bit(s.nfsr, compute_index(11))
      b13 == get_bit(s.nfsr, compute_index(13))
      b17 == get_bit(s.nfsr, compute_index(17))
      b18 == get_bit(s.nfsr, compute_index(18))
      b27 == get_bit(s.nfsr, compute_index(27))
      b59 == get_bit(s.nfsr, compute_index(59))
      b40 == get_bit(s.nfsr, compute_index(40))
      b48 == get_bit(s.nfsr, compute_index(48))
      b61 == get_bit(s.nfsr, compute_index(61))
      b65 == get_bit(s.nfsr, compute_index(65))
      b68 == get_bit(s.nfsr, compute_index(68))
      b84 == get_bit(s.nfsr, compute_index(84))
      b22 == get_bit(s.nfsr, compute_index(22))
      b24 == get_bit(s.nfsr, compute_index(24))
      b25 == get_bit(s.nfsr, compute_index(25))
      b70 == get_bit(s.nfsr, compute_index(70))
      b78 == get_bit(s.nfsr, compute_index(78))
      b82 == get_bit(s.nfsr, compute_index(82))
      b88 == get_bit(s.nfsr, compute_index(88))
      b92 == get_bit(s.nfsr, compute_index(92))
      b93 == get_bit(s.nfsr, compute_index(93))
      b95 == get_bit(s.nfsr, compute_index(95))
      t0  == Xor8(Xor8(Xor8(Xor8(b0, b26), b56), b91), b96)
      t1  == And8(b3, b67)
      t2  == And8(b11, b13)
      t3  == And8(b17, b18)
      t4  == And8(b27, b59)
      t5  == And8(b40, b48)
      t6  == And8(b61, b65)
      t7  == And8(b68, b84)
      t8  == And8(And8(b22, b24), b25)
      t9  == And8(And8(b70, b78), b82)
      t10 == And8(And8(And8(b88, b92), b93), b95)
      fbt == Xor8(Xor8(Xor8(Xor8(Xor8(Xor8(Xor8(Xor8(Xor8(Xor8(
               t0, t1), t2), t3), t4), t5), t6), t7), t8), t9), t10)
  IN  Xor8(s0, fbt)

\* One byte of a register shifted down by a bit: byte i (0-based) becomes
\* (reg[i] >> 1) | (carry << 7)
ShiftByte(reg, i, carry) == Or8(Shl8(carry, 7), Shr(At(reg, i), 1))

\* The bit that byte i (0-based) of a register takes in from byte i + 1
CarryBit(reg, i) == get_bit(reg, compute_index(8 * (i + 1)))

\* update: drop bit 0, shift every bit down by one, set bit 127 to bit127.
\* The 15 carry bits are read before any byte is written.
update(reg, bit127) ==
  << ShiftByte(reg, 0, CarryBit(reg, 0)),   ShiftByte(reg, 1, CarryBit(reg, 1)),
     ShiftByte(reg, 2, CarryBit(reg, 2)),   ShiftByte(reg, 3, CarryBit(reg, 3)),
     ShiftByte(reg, 4, CarryBit(reg, 4)),   ShiftByte(reg, 5, CarryBit(reg, 5)),
     ShiftByte(reg, 6, CarryBit(reg, 6)),   ShiftByte(reg, 7, CarryBit(reg, 7)),
     ShiftByte(reg, 8, CarryBit(reg, 8)),   ShiftByte(reg, 9, CarryBit(reg, 9)),
     ShiftByte(reg, 10, CarryBit(reg, 10)), ShiftByte(reg, 11, CarryBit(reg, 11)),
     ShiftByte(reg, 12, CarryBit(reg, 12)), ShiftByte(reg, 13, CarryBit(reg, 13)),
     ShiftByte(reg, 14, CarryBit(reg, 14)), ShiftByte(reg, 15, bit127) >>

update_lfsr(s, s127) == [s EXCEPT !.lfsr = update(s.lfsr, s127)]
update_nfsr(s, b127) == [s EXCEPT !.nfsr = update(s.nfsr, b127)]

(***************************************************************************)
(* grain_128: authenticator                                                *)
(***************************************************************************)

\* update_accumulator: acc ^= sreg & broadcast(mb), byte by byte
update_accumulator(s, mb) ==
  LET widened == <<0, 255>>[mb + 1]
      Acc(i)  == Xor8(At(s.acc, i), And8(At(s.sreg, i), widened))
  IN  [s EXCEPT !.acc = <<Acc(0), Acc(1), Acc(2), Acc(3), Acc(4), Acc(5), Acc(6), Acc(7)>>]

\* update_register: sreg shifted down by one bit, auth placed at bit 63
update_register(s, auth) ==
  LET r == s.sreg
  IN  [s EXCEPT !.sreg =
         << ShiftByte(r, 0, CarryBit(r, 0)), ShiftByte(r, 1, CarryBit(r, 1)),
            ShiftByte(r, 2, CarryBit(r, 2)), ShiftByte(r, 3, CarryBit(r, 3)),
            ShiftByte(r, 4, CarryBit(r, 4)), ShiftByte(r, 5, CarryBit(r, 5)),
            ShiftByte(r, 6, CarryBit(r, 6)), ShiftByte(r, 7, auth) >>]

\* a ^ b on 16 bits
Xor16(a, b) == Xor8(a % 256, b % 256) + 256 * Xor8(a \div 256, b \div 256)

\* A uint64_t is kept as four 16-bit limbs, least significant limb first.
\* from_le_bytes: bytes[0] is the least significant byte
from_le_bytes(bytes) ==
  << At(bytes, 0) + 256 * At(bytes, 1), At(bytes, 2) + 256 * At(bytes, 3),
     At(bytes, 4) + 256 * At(bytes, 5), At(bytes, 6) + 256 * At(bytes, 7) >>

\* to_le_bytes: byte i is static_cast<uint8_t>(v >> (i << 3))
to_le_bytes(v) ==
  << v[1] % 256, v[1] \div 256, v[2] % 256, v[2] \div 256,
     v[3] % 256, v[3] \div 256, v[4] % 256, v[4] \div 256 >>

\* acc ^ (br[m] & sreg) on uint64_t, br[0] = 0 and br[1] = all ones
AccStep(acc, m, sreg) ==
  IF m = 1
  THEN << Xor16(acc[1], sreg[1]), Xor16(acc[2], sreg[2]),
          Xor16(acc[3], sreg[3]), Xor16(acc[4], sreg[4]) >>
  ELSE acc

\* SregStep that shifts k in at bit 62
SregStep_bit62(sreg, k) ==
  << (sreg[1] \div 2) + 32768 * (sreg[2] % 2), (sreg[2] \div 2) + 32768 * (sreg[3] % 2),
     (sreg[3] \div 2) + 32768 * (sreg[4] % 2), ((sreg[4] \div 2) % 16384) + 16384 * k >>

\* (sreg >> 1) | (uint64_t(k) << 63)
SregStep(sreg, k) ==
  << (sreg[1] \div 2) + 32768 * (sreg[2] % 2), (sreg[2] \div 2) + 32768 * (sreg[3] % 2),
     (sreg[3] \div 2) + 32768 * (sreg[4] % 2), (sreg[4] \div 2) + 32768 * k >>

\* authenticated_byte: 8 message bits and 8 auth bits, least significant first.
\* acc0 .. acc8 and sreg0 .. sreg8 are the const locals of the code, bit i of
\* msg and of ksb being m_i and k_i
authenticated_byte(s, mb, ksbits) ==
  Only({
    Only({
      Only({
        Only({
          Only({
            Only({
              Only({
                Only({
                  Only({
                    [s EXCEPT !.acc = to_le_bytes(acc8), !.sreg = to_le_bytes(sreg8)]
                    : acc8 \in {AccStep(acc7, Shr(mb, 7) % 2, sreg7)},
                      sreg8 \in {SregStep(sreg7, Shr(ksbits, 7) % 2)} })
                  : acc7 \in {AccStep(acc6, Shr(mb, 6) % 2, sreg6)},
                    sreg7 \in {SregStep(sreg6, Shr(ksbits, 6) % 2)} })
                : acc6 \in {AccStep(acc5, Shr(mb, 5) % 2, sreg5)},
                  sreg6 \in {SregStep(sreg5, Shr(ksbits, 5) % 2)} })
              : acc5 \in {AccStep(acc4, Shr(mb, 4) % 2, sreg4)},
                sreg5 \in {SregStep(sreg4, Shr(ksbits, 4) % 2)} })
            : acc4 \in {AccStep(acc3, Shr(mb, 3) % 2, sreg3)},
              sreg4 \in {SregStep(sreg3, Shr(ksbits, 3) % 2)} })
          : acc3 \in {AccStep(acc2, Shr(mb, 2) % 2, sreg2)},
            sreg3 \in {SregStep(sreg2, Shr(ksbits, 2) % 2)} })
        : acc2 \in {AccStep(acc1, Shr(mb, 1) % 2, sreg1)},
          sreg2 \in {SregStep(sreg1, Shr(ksbits, 1) % 2)} })
      : acc1 \in {AccStep(acc0, Shr(mb, 0) % 2, sreg0)},
        sreg1 \in {SregStep(sreg0, Shr(ksbits, 0) % 2)} })
    : acc0 \in {from_le_bytes(s.acc)}, sreg0 \in {from_le_bytes(s.sreg)} })

(***************************************************************************)
(* aead: helpers                                                           *)
(***************************************************************************)

RECURSIVE bit_width(_)
\* std::bit_width: number of bits needed to represent x
bit_width(x) == IF x = 0 THEN 0 ELSE 1 + bit_width(x \div 2)

RECURSIVE Pow256(_)
\* 1 << (n << 3)
Pow256(n) == IF n = 0 THEN 1 ELSE 256 * Pow256(n - 1)

\* encode_der that stores the length bytes least significant first
encode_der_little_endian(dlen) ==
  IF dlen < 128
  THEN <<[i \in 1..9 |-> IF i = 1 THEN dlen % 256 ELSE 0], 1>>
  ELSE LET bw   == bit_width(dlen)
           fcbc == (bw \div 8) + (IF bw % 8 > 0 THEN 1 ELSE 0)
       IN  <<[i \in 1..9 |->
                IF i = 1 THEN Xor8(128, fcbc)
                ELSE IF i - 1 <= fcbc
                     THEN (dlen \div Pow256(i - 2)) % 256
                     ELSE 0],
             fcbc + 1>>

\* encode_der whose short form leaves der as memset left it
encode_der_no_length(dlen) ==
  IF dlen < 128
  THEN <<[i \in 1..9 |-> 0], 1>>
  ELSE LET bw   == bit_width(dlen)
           fcbc == (bw \div 8) + (IF bw % 8 > 0 THEN 1 ELSE 0)
       IN  <<[i \in 1..9 |->
                IF i = 1 THEN Xor8(128, fcbc)
                ELSE IF i - 1 <= fcbc
                     THEN (dlen \div Pow256(fcbc - (i - 1))) % 256
                     ELSE 0],
             fcbc + 1>>

\* encode_der: <<der[0..8], number of useful bytes>>
encode_der(dlen) ==
  IF dlen < 128
  THEN <<[i \in 1..9 |-> IF i = 1 THEN dlen % 256 ELSE 0], 1>>
  ELSE LET bw   == bit_width(dlen)
           fcbc == (bw \div 8) + (IF bw % 8 > 0 THEN 1 ELSE 0)
       IN  <<[i \in 1..9 |->
                IF i = 1 THEN Xor8(128, fcbc)
                ELSE IF i - 1 <= fcbc
                     THEN (dlen \div Pow256(fcbc - (i - 1))) % 256
                     ELSE 0],
             fcbc + 1>>

\* bit k of byte x, moved to bit position d
MoveBit(x, k, d) == Shl8(Shr(x, k) % 2, d)

\* split_bits that takes bits 0..3 of each output from second
split_bits_second_low(first_, second_) ==
  LET even == MoveBit(second_, 0, 0) + MoveBit(first_, 0, 4)
            + MoveBit(second_, 2, 1) + MoveBit(first_, 2, 5)
            + MoveBit(second_, 4, 2) + MoveBit(first_, 4, 6)
            + MoveBit(second_, 6, 3) + MoveBit(first_, 6, 7)
      odd  == MoveBit(second_, 1, 0) + MoveBit(first_, 1, 4)
            + MoveBit(second_, 3, 1) + MoveBit(first_, 3, 5)
            + MoveBit(second_, 5, 2) + MoveBit(first_, 5, 6)
            + MoveBit(second_, 7, 3) + MoveBit(first_, 7, 7)
  IN  <<even, odd>>

\* split_bits with the two halves exchanged: <<odd bits, even bits>>
split_bits_swapped(first_, second_) ==
  LET even == MoveBit(first_, 0, 0) + MoveBit(second_, 0, 4)
            + MoveBit(first_, 2, 1) + MoveBit(second_, 2, 5)
            + MoveBit(first_, 4, 2) + MoveBit(second_, 4, 6)
            + MoveBit(first_, 6, 3) + MoveBit(second_, 6, 7)
      odd  == MoveBit(first_, 1, 0) + MoveBit(second_, 1, 4)
            + MoveBit(first_, 3, 1) + MoveBit(second_, 3, 5)
            + MoveBit(first_, 5, 2) + MoveBit(second_, 5, 6)
            + MoveBit(first_, 7, 3) + MoveBit(second_, 7, 7)
  IN  <<odd, even>>

\* split_bits: <<even bits, odd bits>> of the 16 stream bits (first, second)
split_bits(first_, second_) ==
  LET even == MoveBit(first_, 0, 0) + MoveBit(second_, 0, 4)
            + MoveBit(first_, 2, 1) + MoveBit(second_, 2, 5)
            + MoveBit(first_, 4, 2) + MoveBit(second_, 4, 6)
            + MoveBit(first_, 6, 3) + MoveBit(second_, 6, 7)
      odd  == MoveBit(first_, 1, 0) + MoveBit(second_, 1, 4)
            + MoveBit(first_, 3, 1) + MoveBit(second_, 3, 5)
            + MoveBit(first_, 5, 2) + MoveBit(second_, 5, 6)
            + MoveBit(first_, 7, 3) + MoveBit(second_, 7, 7)
  IN  <<even, odd>>

\* The block { s120 = l(st); b120 = f(st); update_lfsr(st, s120 ^ ovl);
\* update_nfsr(st, b120 ^ ovn); } of the 8-wide loops; l and f are both
\* read before either register is written.
Clock8(s, ovl, ovn) ==
  LET s120 == l8(s)
      b120 == f8(s)
  IN  update_nfsr8(update_lfsr8(s, Xor8(s120, ovl)), Xor8(b120, ovn))

\* Clock1 with the LFSR feedback bit shifted into the NFSR as well
Clock1_lfsr_bit_twice(s) ==
  LET s127 == l(s)
  IN  update_nfsr(update_lfsr(s, s127), s127)

\* The same block of the bit-serial loops (no overlay after initialization)
Clock1(s) ==
  LET s127 == l(s)
      b127 == f(s)
  IN  update_nfsr(update_lfsr(s, s127), b127)

(***************************************************************************)
(* aead: loop bodies                                                       *)
(***************************************************************************)

\* initialize_load with the LFSR padded by 32 ones, bit 127 not cleared
initialize_load_all_ones(s, key_, nonce_) ==
  [s EXCEPT !.nfsr = key_, !.lfsr = nonce_ \o <<255, 255, 255, 255>>]

\* initialize, lines "memcpy": nfsr <- key, lfsr <- nonce || ff ff ff 7f.
\* acc and sreg keep whatever the stack held.
initialize_load(s, key_, nonce_) ==
  [s EXCEPT !.nfsr = key_, !.lfsr = nonce_ \o <<255, 255, 255, 127>>]

\* initialize_mix that feeds the pre-output byte back into the LFSR only
initialize_mix_lfsr_only(s) ==
  LET yt == ksb8(s) IN Clock8(s, yt, 0)

\* initialize, first loop body (t < 40): the pre-output byte is fed back
initialize_mix(s) ==
  LET yt == ksb8(s) IN Clock8(s, yt, yt)

\* initialize_key with the low key half fed back into both registers
initialize_key_low_half(s, key_, t_) ==
  LET kb == At(key_, t_)
      yt == ksb8(s)
  IN  Clock8(s, Xor8(yt, kb), Xor8(yt, kb))

\* initialize, second loop body (t < 8): key bytes are fed back as well
initialize_key(s, key_, t_) ==
  LET ka == At(key_, t_ + 8)
      kb == At(key_, t_)
      yt == ksb8(s)
  IN  Clock8(s, Xor8(yt, ka), Xor8(yt, kb))

\* initialize_acc that fills acc from its last byte down
initialize_acc_reversed(s, t_) ==
  LET yt == ksb8(s)
  IN  Clock8([s EXCEPT !.acc[8 - t_] = yt], 0, 0)

\* initialize, third loop body: acc[t] <- pre-output byte
initialize_acc(s, t_) ==
  LET yt == ksb8(s)
  IN  Clock8([s EXCEPT !.acc[t_ + 1] = yt], 0, 0)

\* initialize, fourth loop body: sreg[t] <- pre-output byte
initialize_sreg(s, t_) ==
  LET yt == ksb8(s)
  IN  Clock8([s EXCEPT !.sreg[t_ + 1] = yt], 0, 0)

\* The 8 bits of a byte, least significant first
Bits8(b) ==
  << b % 2, (b \div 2) % 2, (b \div 4) % 2, (b \div 8) % 2,
     (b \div 16) % 2, (b \div 32) % 2, (b \div 64) % 2, (b \div 128) % 2 >>

\* Byte-parallel loop body up to split_bits: 16 clocks,
\* <<state, keystream byte, authentication byte, yt0, yt1>>
clock16(s) ==
  Only({ Only({ Only({ <<st2, splitted[1], splitted[2], yt0, yt1>>
                       : splitted \in {split_bits(yt0, yt1)} })
                : st2 \in {Clock8(st1, 0, 0)}, yt1 \in {ksb8(st1)} })
         : st1 \in {Clock8(s, 0, 0)}, yt0 \in {ksb8(s)} })

\* Bit-serial loop body: 2 clocks, <<state, even bit, odd bit>>
clock2(s) ==
  Only({ <<Clock1(st1), ksb(s), ksb(st1)>> : st1 \in {Clock1(s)} })

\* auth_byte that loses the most significant bit of the byte
auth_byte_7bits(s, mb) ==
  Only({ [st |-> authenticated_byte(k[1], mb % 128, k[3]),
          ka |-> Bits8(k[3]), y |-> Bits8(k[4]) \o Bits8(k[5])]
         : k \in {clock16(s)} })

\* auth_byte that also overlays the byte on the second update of the lfsr
auth_byte_into_lfsr(s, mb) ==
  Only({ [st |-> authenticated_byte(
                   [k[1] EXCEPT !.lfsr[16] = Xor8(@, mb)], mb, k[3]),
          ka |-> Bits8(k[3]), y |-> Bits8(k[4]) \o Bits8(k[5])]
         : k \in {clock16(s)} })

\* byte-parallel: authenticate one byte (DER, associated data or padding).
\* [st, ka, y]: ka the 8 authentication bits used, y the 16 pre-output bits
auth_byte(s, mb) ==
  Only({ [st |-> authenticated_byte(k[1], mb, k[3]),
          ka |-> Bits8(k[3]), y |-> Bits8(k[4]) \o Bits8(k[5])]
         : k \in {clock16(s)} })

\* bit-serial: authenticate one bit (DER, associated data or padding).
\* [st, ka, y]: ka the authentication bit used, y the 2 pre-output bits
auth_bit(s, bit) ==
  Only({ Only({ [st |-> update_register(accumulated, k[3]),
                 ka |-> <<k[3]>>, y |-> <<k[2], k[3]>>]
                : accumulated \in {update_accumulator(k[1], bit)} })
         : k \in {clock2(s)} })

(***************************************************************************)
(* The callers of the library and the inputs they pass                     *)
(***************************************************************************)

\* Largest associated data and message, in bytes, of the exhaustive runs
MaxAdLen == 1
MaxMsgLen == 2

\* The example of the README: key, nonce, associated data and plain text
ReadmeKey ==
  <<8, 236, 198, 211, 237, 170, 87, 203, 223, 75, 212, 182, 244, 56, 105, 250 >>
ReadmeNonce ==
  <<248, 247, 85, 3, 75, 255, 34, 127, 161, 7, 250, 192 >>
ReadmeData ==
  <<247, 176, 75, 18, 5, 22, 128, 209, 175, 148, 62, 20, 46, 158, 14, 149,
     226, 76, 107, 223, 117, 62, 219, 74, 161, 36, 128, 204, 141, 23, 156, 165 >>
ReadmeText ==
  <<56, 147, 116, 19, 190, 223, 92, 117, 61, 14, 174, 188, 97, 70, 123, 129,
     75, 78, 110, 157, 108, 26, 182, 236, 79, 189, 225, 146, 228, 88, 26, 250 >>

\* n bytes of value b
Fill(n, b) == [j \in 1..n |-> b]

\* The (key, nonce) pairs of the exhaustive runs
KeyNonces == { <<Fill(16, 0), Fill(12, 0)>>, <<ReadmeKey, ReadmeNonce>> }

\* Associated data and messages of the exhaustive runs
AdInputs  == { SubSeq(ReadmeData, 1, n) : n \in 0..MaxAdLen }
MsgInputs == { SubSeq(ReadmeText, 1, n) : n \in 0..MaxMsgLen }
               \cup { Fill(MaxMsgLen, 0) }

\* Content of memory nobody has written yet; reading it is a read of an
\* indeterminate value, which any byte of Junk may turn out to be
Undef == -1
Junk == {0, 255}
Load(byte) == IF byte = Undef THEN Junk ELSE {byte}

\* How the two builds are called.  alias: enc and txt of encrypt are the
\* same buffer.  reload: what this build does with a read through a __restrict
\* pointer it has already loaded, when the buffer was written through another
\* pointer in between (undefined behaviour, so either outcome is a build):
\* TRUE reads memory again, FALSE keeps the value loaded first.
EncryptCalls ==
  { [op |-> "encrypt", build |-> "byte", alias |-> FALSE, reload |-> FALSE],
    [op |-> "encrypt", build |-> "bit",  alias |-> FALSE, reload |-> FALSE],
    [op |-> "encrypt", build |-> "byte", alias |-> TRUE,  reload |-> FALSE],
    [op |-> "encrypt", build |-> "byte", alias |-> TRUE,  reload |-> TRUE],
    [op |-> "encrypt", build |-> "bit",  alias |-> TRUE,  reload |-> FALSE],
    [op |-> "encrypt", build |-> "bit",  alias |-> TRUE,  reload |-> TRUE] }

VARIABLES
  channel,   \* "hostile": one bit may change between encrypt and decrypt
  key,       \* the caller's 16-byte key
  nonce,     \* the caller's 12-byte nonce
  ad,        \* the caller's associated data
  msg,       \* the caller's message
  calls,     \* number of library calls that have returned
  call,      \* the call in progress (or the last one)
  pc,        \* the loop the call is in
  pos,       \* the loop counter (t or i of the code)
  st,        \* grain_128::state_t st of encrypt / decrypt
  der,       \* uint8_t der[9] of auth_associated_data
  der_len,   \* der_len of auth_associated_data
  data,      \* the buffer `data` of the call
  txt,       \* the buffer `txt` of the call
  enc,       \* the buffer `enc` of the call
  tag,       \* the buffer `tag` of the call
  flip,      \* the bit the channel changed, if any
  first,     \* what the first encrypt call returned
  second,    \* what the second encrypt call returned
  ret,       \* what decrypt returned
  absorbed,  \* bits given to the authenticator by this call, in order
  clocks,    \* cipher clocks of this call
  stream,    \* pre-output bits of this call after initialize, in clock order
  keys,      \* authentication bits given to the authenticator, in order
  writes,    \* indices this call has stored to in enc, txt and tag, in order
  seeded,    \* stores of initialize into st->acc and st->sreg, in order
  phases,    \* functions this call has entered, in order
  ref,       \* the cipher clocked one bit at a time beside initialize
  lab,       \* one register state taken through the 8-wide and the 1-bit path
  threads,   \* the calls of concurrent threads
  stack      \* the stack frames those calls keep their state_t in

vars == << channel, key, nonce, ad, msg, calls, call, pc, pos, st, der, der_len,
           data, txt, enc, tag, flip, first, second, ret, absorbed, clocks,
           stream, keys, writes, seeded, phases, ref, lab, threads, stack >>

inputs == << channel, key, nonce, ad, msg >>

\* What a sequential call never touches
aside == << ref, lab, threads, stack >>

NoWrites == [enc |-> <<>>, txt |-> <<>>, tag |-> <<>>]
NoRef == [t |-> 0, lfsr |-> <<>>, nfsr |-> <<>>, y |-> <<>>]
NoLab == [test |-> "none"]

NoCall == [op |-> "none", build |-> "byte", alias |-> FALSE, reload |-> FALSE]
NoFlip == [where |-> "none", byte |-> 0, bit |-> 0]
NoResult == [done |-> FALSE, enc |-> <<>>, tag |-> <<>>, absorbed |-> <<>>, clocks |-> 0,
             call |-> NoCall]
NoRet == [done |-> FALSE, verified |-> FALSE, txt |-> <<>>, wiped |-> <<>>,
          visited |-> <<>>]

\* Before the first call: no buffer exists yet
Idle ==
  /\ calls = 0 /\ call = NoCall /\ pc = "idle" /\ pos = 0
  /\ st = [lfsr |-> Fill(16, Undef), nfsr |-> Fill(16, Undef),
           acc |-> Fill(8, Undef), sreg |-> Fill(8, Undef)]
  /\ der = Fill(9, Undef) /\ der_len = 0
  /\ data = <<>> /\ txt = <<>> /\ enc = <<>> /\ tag = Fill(8, Undef)
  /\ flip = NoFlip /\ first = NoResult /\ second = NoResult /\ ret = NoRet
  /\ absorbed = <<>> /\ clocks = 0
  /\ stream = <<>> /\ keys = <<>> /\ writes = NoWrites /\ seeded = <<>>
  /\ phases = <<>>

\* Only sequential calls are made
Sequential == ref = NoRef /\ lab = NoLab /\ threads = <<>> /\ stack = <<>>

\* Exhaustive runs: every input within the bounds, over a channel that may
\* change one bit
Init ==
  /\ channel = "hostile"
  /\ \E kn \in KeyNonces : key = kn[1] /\ nonce = kn[2]
  /\ ad \in AdInputs
  /\ msg \in MsgInputs
  /\ Idle /\ Sequential

\* Known-answer run: the example of the README over a faithful channel
InitKAT ==
  /\ channel = "faithful"
  /\ key = ReadmeKey /\ nonce = ReadmeNonce
  /\ ad = ReadmeData /\ msg = ReadmeText
  /\ Idle /\ Sequential

(***************************************************************************)
(* Bookkeeping of the loops                                                *)
(***************************************************************************)

\* Number of iterations of a loop over n bytes: n in the byte-parallel
\* build, n << 3 in the bit-serial build
Iterations(n) == IF call.build = "byte" THEN n ELSE 8 * n

\* AfterData of a call that waits for text when there is none
AfterDataWaits == IF Len(enc) > 0 THEN "text" ELSE "wait"

\* AfterData of a call that returns at once when there is no text
AfterDataReturnsEarly == IF Len(enc) > 0 THEN "text" ELSE "finish"

\* The loop that runs after the associated data loop, and after the DER loop
AfterData == IF Len(enc) > 0 THEN "text" ELSE "pad"
AfterDer  == IF Len(data) > 0 THEN "data" ELSE AfterData

\* The function of encrypt / decrypt that works on the text
TextFn == IF call.op = "encrypt" THEN "enc_and_auth_txt" ELSE "dec_and_auth_txt"

\* The functions encrypt / decrypt enters, in order, between the end of loop
\* `from` and the first iteration of loop `to`: a function whose loops run no
\* iteration is entered all the same
Entered(from, to) ==
  IF to = "aad" THEN <<"auth_associated_data">>
  ELSE IF to = "text" THEN <<TextFn>>
  ELSE IF to = "pad"
       THEN (IF from = "text" THEN <<>> ELSE <<TextFn>>) \o <<"auth_padding_bit">>
       ELSE <<>>

\* i++ of a loop of `limit` iterations; the loop `after` follows it
Advance(limit, after) ==
  IF pos + 1 < limit
  THEN pc' = pc /\ pos' = pos + 1 /\ phases' = phases
  ELSE pc' = after /\ pos' = 0 /\ phases' = phases \o Entered(pc, after)

\* What the callee finds in byte `at` of an input buffer: what the caller
\* passed, or, on a hostile channel that has changed nothing so far, that byte
\* with one of the bits `bits` flipped.  <<buffer, flip>>
Arrivals(buf, where, at, bits) ==
  { <<buf, flip>> } \cup
  IF call.op = "decrypt" /\ channel = "hostile" /\ flip = NoFlip
  THEN { << [buf EXCEPT ![at + 1] = Xor8(@, Pow2[b + 1])],
            [where |-> where, byte |-> at, bit |-> b] >> : b \in bits }
  ELSE {}

\* state_t st; initialize(&st, key, nonce) up to the first loop
Enter(c) ==
  /\ call' = c
  /\ st' = initialize_load([lfsr |-> Fill(16, Undef), nfsr |-> Fill(16, Undef),
                             acc |-> Fill(8, Undef), sreg |-> Fill(8, Undef)],
                            key, nonce)
  /\ pc' = "mix" /\ pos' = 0
  /\ der' = Fill(9, Undef) /\ der_len' = 0
  /\ tag' = Fill(8, Undef)
  /\ absorbed' = <<>> /\ clocks' = 0
  /\ stream' = <<>> /\ keys' = <<>> /\ writes' = NoWrites /\ seeded' = <<>>
  /\ phases' = <<"initialize">>

(***************************************************************************)
(* grain_128aead::encrypt and ::decrypt, call and initialize               *)
(***************************************************************************)

\* The caller calls encrypt: first the byte-parallel build with distinct
\* buffers, then any build with any buffer layout, on the same input
encrypt_call ==
  /\ pc = "idle" /\ calls \in {0, 1}
  /\ \E c \in EncryptCalls :
       /\ calls = 0 => (c.build = "byte" /\ ~c.alias)
       /\ Enter(c)
       /\ data' = ad
       /\ txt' = msg
       /\ enc' = IF c.alias THEN msg ELSE Fill(Len(msg), Undef)
  /\ flip' = NoFlip
  /\ UNCHANGED << inputs, aside, calls, first, second, ret >>

\* The receiver calls decrypt of the same build on what the second encrypt
\* call produced; txt is a fresh buffer
decrypt_call ==
  /\ pc = "idle" /\ calls = 2
  /\ Enter([op |-> "decrypt", build |-> second.call.build,
            alias |-> FALSE, reload |-> FALSE])
  /\ data' = ad
  /\ enc' = second.enc
  /\ txt' = Fill(Len(second.enc), Undef)
  /\ flip' = NoFlip
  /\ UNCHANGED << inputs, aside, calls, first, second, ret >>

\* initialize, for (t = 0; t < 40; t++)
initialize_t40 ==
  /\ pc = "mix"
  /\ st' = initialize_mix(st)
  /\ clocks' = clocks + 8
  /\ Advance(40, "key")
  /\ UNCHANGED << inputs, aside, calls, call, der, der_len, data, txt, enc, tag, flip,
                  first, second, ret, absorbed,
                  stream, keys, writes, seeded >>

\* initialize, first for (t = 0; t < 8; t++): key re-introduction
initialize_t8_key ==
  /\ pc = "key"
  /\ st' = initialize_key(st, key, pos)
  /\ clocks' = clocks + 8
  /\ Advance(8, "acc")
  /\ UNCHANGED << inputs, aside, calls, call, der, der_len, data, txt, enc, tag, flip,
                  first, second, ret, absorbed,
                  stream, keys, writes, seeded >>

\* initialize, second for (t = 0; t < 8; t++): accumulator
initialize_t8_acc ==
  /\ pc = "acc"
  /\ st' = initialize_acc(st, pos)
  /\ seeded' = Append(seeded, [reg |-> "acc", at |-> pos, clock |-> clocks])
  /\ clocks' = clocks + 8
  /\ Advance(8, "sreg")
  /\ UNCHANGED << inputs, aside, calls, call, der, der_len, data, txt, enc, tag, flip,
                  first, second, ret, absorbed,
                  stream, keys, writes >>

\* initialize, third for (t = 0; t < 8; t++): shift register
initialize_t8_sreg ==
  /\ pc = "sreg"
  /\ st' = initialize_sreg(st, pos)
  /\ seeded' = Append(seeded, [reg |-> "sreg", at |-> pos, clock |-> clocks])
  /\ clocks' = clocks + 8
  /\ Advance(8, "aad")
  /\ UNCHANGED << inputs, aside, calls, call, der, der_len, data, txt, enc, tag, flip,
                  first, second, ret, absorbed,
                  stream, keys, writes >>

(***************************************************************************)
(* aead: the loops of the byte-parallel build                              *)
(***************************************************************************)

\* constexpr uint8_t padding of auth_padding_bit, byte-parallel build
padding == 1

\* constexpr uint8_t padding of auth_padding_bit, bit-serial build
padding_bit == 1

\* auth_associated_data up to its first loop: der[9]{} and encode_der
auth_associated_data_der ==
  /\ pc = "aad"
  /\ \E e \in {encode_der(Len(data))} :
       /\ der' = e[1] /\ der_len' = e[2]
       /\ pc' = IF e[2] > 0 THEN "der" ELSE AfterDer
       /\ phases' = phases \o Entered(pc, IF e[2] > 0 THEN "der" ELSE AfterDer)
  /\ pos' = 0
  /\ UNCHANGED << inputs, aside, calls, call, st, data, txt, enc, tag, flip,
                  first, second, ret, absorbed, clocks,
                  stream, keys, writes, seeded >>

\* auth_associated_data, for (i = 0; i < der_len; i++)
auth_der_byte ==
  /\ pc = "der" /\ call.build = "byte"
  /\ \E r \in {auth_byte(st, At(der, pos))} :
       /\ st' = r.st /\ stream' = stream \o r.y /\ keys' = keys \o r.ka
  /\ absorbed' = absorbed \o Bits8(At(der, pos))
  /\ clocks' = clocks + 16
  /\ Advance(Iterations(der_len), AfterDer)
  /\ UNCHANGED << inputs, aside, calls, call, der, der_len, data, txt, enc, tag, flip,
                  first, second, ret,
                  writes, seeded >>

\* auth_associated_data, for (i = 0; i < dlen; i++)
auth_data_byte ==
  /\ pc = "data" /\ call.build = "byte"
  /\ \E a \in Arrivals(data, "ad", pos, 0..7) :
       /\ data' = a[1] /\ flip' = a[2]
       /\ \E r \in {auth_byte(st, At(a[1], pos))} :
            /\ st' = r.st /\ stream' = stream \o r.y /\ keys' = keys \o r.ka
       /\ absorbed' = absorbed \o Bits8(At(a[1], pos))
  /\ clocks' = clocks + 16
  /\ Advance(Iterations(Len(data)), AfterData)
  /\ UNCHANGED << inputs, aside, calls, call, der, der_len, txt, enc, tag,
                  first, second, ret,
                  writes, seeded >>

\* enc_and_auth_txt that stores the cipher text byte through txt as well
enc_and_auth_txt_through_txt(s, tbuf, ebuf, at, c) ==
  Only({ LET loaded == At(tbuf, at)
             stored == [ebuf EXCEPT ![at + 1] = Xor8(loaded, k[2])]
             mem    == [tbuf EXCEPT ![at + 1] = Xor8(loaded, k[2])]
             again  == IF c.reload THEN At(mem, at) ELSE loaded
         IN  [st |-> authenticated_byte(k[1], again, k[3]),
              txt |-> mem, enc |-> stored, fed |-> again,
              ka |-> Bits8(k[3]), y |-> Bits8(k[4]) \o Bits8(k[5])]
         : k \in {clock16(s)} })

\* enc_and_auth_txt that encrypts with the authentication byte of the window
enc_and_auth_txt_auth_key(s, tbuf, ebuf, at, c) ==
  Only({ LET loaded == At(tbuf, at)
             stored == [ebuf EXCEPT ![at + 1] = Xor8(loaded, k[3])]
             mem    == IF c.alias THEN stored ELSE tbuf
             again  == IF c.reload THEN At(mem, at) ELSE loaded
         IN  [st |-> authenticated_byte(k[1], again, k[3]),
              txt |-> mem, enc |-> stored, fed |-> again,
              ka |-> Bits8(k[3]), y |-> Bits8(k[4]) \o Bits8(k[5])]
         : k \in {clock16(s)} })

\* enc_and_auth_txt, loop body i = at: the store to enc[i] comes between the
\* two reads of txt[i].  [st, txt, enc, fed]: fed is the byte authenticated.
enc_and_auth_txt(s, tbuf, ebuf, at, c) ==
  Only({ LET loaded == At(tbuf, at)
             stored == [ebuf EXCEPT ![at + 1] = Xor8(loaded, k[2])]
             mem    == IF c.alias THEN stored ELSE tbuf
             again  == IF c.reload THEN At(mem, at) ELSE loaded
         IN  [st |-> authenticated_byte(k[1], again, k[3]),
              txt |-> mem, enc |-> stored, fed |-> again,
              ka |-> Bits8(k[3]), y |-> Bits8(k[4]) \o Bits8(k[5])]
         : k \in {clock16(s)} })

\* enc_and_auth_txt, for (i = 0; i < ctlen; i++)
enc_txt_byte ==
  /\ pc = "text" /\ call.build = "byte" /\ call.op = "encrypt"
  /\ \E r \in {enc_and_auth_txt(st, txt, enc, pos, call)} :
         /\ st' = r.st /\ txt' = r.txt /\ enc' = r.enc
         /\ absorbed' = absorbed \o Bits8(r.fed)
         /\ stream' = stream \o r.y /\ keys' = keys \o r.ka
  /\ writes' = [writes EXCEPT !.enc = Append(@, pos)]
  /\ clocks' = clocks + 16
  /\ Advance(Iterations(Len(enc)), "pad")
  /\ UNCHANGED << inputs, aside, calls, call, der, der_len, data, tag, flip,
                  first, second, ret,
                  seeded >>

\* dec_and_auth_txt that authenticates the cipher text byte
dec_and_auth_txt_of_enc(s, ebuf, tbuf, at) ==
  Only({ [st |-> authenticated_byte(k[1], At(ebuf, at), k[3]),
          txt |-> [tbuf EXCEPT ![at + 1] = Xor8(At(ebuf, at), k[2])],
          fed |-> At(ebuf, at),
          ka |-> Bits8(k[3]), y |-> Bits8(k[4]) \o Bits8(k[5])]
         : k \in {clock16(s)} })

\* dec_and_auth_txt, loop body i = at.  [st, txt, fed]
dec_and_auth_txt(s, ebuf, tbuf, at) ==
  Only({ LET stored == [tbuf EXCEPT ![at + 1] = Xor8(At(ebuf, at), k[2])]
         IN  [st |-> authenticated_byte(k[1], At(stored, at), k[3]),
              txt |-> stored, fed |-> At(stored, at),
              ka |-> Bits8(k[3]), y |-> Bits8(k[4]) \o Bits8(k[5])]
         : k \in {clock16(s)} })

\* dec_and_auth_txt, for (i = 0; i < ctlen; i++)
dec_txt_byte ==
  /\ pc = "text" /\ call.build = "byte" /\ call.op = "decrypt"
  /\ \E a \in Arrivals(enc, "ct", pos, 0..7) :
       \E r \in {dec_and_auth_txt(st, a[1], txt, pos)} :
           /\ enc' = a[1] /\ flip' = a[2]
           /\ st' = r.st /\ txt' = r.txt
           /\ absorbed' = absorbed \o Bits8(r.fed)
           /\ stream' = stream \o r.y /\ keys' = keys \o r.ka
  /\ writes' = [writes EXCEPT !.txt = Append(@, pos)]
  /\ clocks' = clocks + 16
  /\ Advance(Iterations(Len(enc)), "pad")
  /\ UNCHANGED << inputs, aside, calls, call, der, der_len, data, tag,
                  first, second, ret,
                  seeded >>

\* auth_padding_byte with the padding bit in the most significant position
auth_padding_byte_msb ==
  /\ pc = "pad" /\ call.build = "byte"
  /\ \E r \in {auth_byte(st, 128)} :
       /\ st' = r.st /\ stream' = stream \o r.y /\ keys' = keys \o r.ka
  /\ absorbed' = absorbed \o Bits8(128)
  /\ clocks' = clocks + 16
  /\ pc' = "finish" /\ pos' = 0
  /\ UNCHANGED << inputs, aside, calls, call, der, der_len, data, txt, enc, tag, flip,
                  first, second, ret,
                  writes, seeded, phases >>

\* auth_padding_bit that authenticates the byte 0b00000011
auth_padding_byte_two_bits ==
  /\ pc = "pad" /\ call.build = "byte"
  /\ \E r \in {auth_byte(st, 3)} :
       /\ st' = r.st /\ stream' = stream \o r.y /\ keys' = keys \o r.ka
  /\ absorbed' = absorbed \o Bits8(padding)
  /\ clocks' = clocks + 16
  /\ pc' = "finish" /\ pos' = 0
  /\ UNCHANGED << inputs, aside, calls, call, der, der_len, data, txt, enc, tag, flip,
                  first, second, ret,
                  writes, seeded, phases >>

\* auth_padding_bit, byte-parallel build
auth_padding_byte ==
  /\ pc = "pad" /\ call.build = "byte"
  /\ \E r \in {auth_byte(st, padding)} :
       /\ st' = r.st /\ stream' = stream \o r.y /\ keys' = keys \o r.ka
  /\ absorbed' = absorbed \o Bits8(padding)
  /\ clocks' = clocks + 16
  /\ pc' = "finish" /\ pos' = 0
  /\ UNCHANGED << inputs, aside, calls, call, der, der_len, data, txt, enc, tag, flip,
                  first, second, ret,
                  writes, seeded, phases >>

(***************************************************************************)
(* aead: the loops of the bit-serial build                                 *)
(***************************************************************************)

\* auth_associated_data, for (i = 0; i < der_blen; i++)
auth_der_bit ==
  /\ pc = "der" /\ call.build = "bit"
  /\ \E der_bit \in {get_bit(der, compute_index(pos))} :
         /\ \E r \in {auth_bit(st, der_bit)} :
              /\ st' = r.st /\ stream' = stream \o r.y /\ keys' = keys \o r.ka
         /\ absorbed' = Append(absorbed, der_bit)
  /\ clocks' = clocks + 2
  /\ Advance(Iterations(der_len), AfterDer)
  /\ UNCHANGED << inputs, aside, calls, call, der, der_len, data, txt, enc, tag, flip,
                  first, second, ret,
                  writes, seeded >>

\* auth_associated_data, for (i = 0; i < dblen; i++)
auth_data_bit ==
  /\ pc = "data" /\ call.build = "bit"
  /\ \E a \in Arrivals(data, "ad", pos \div 8, {pos % 8}) :
       \E d_bit \in {get_bit(a[1], compute_index(pos))} :
         /\ data' = a[1] /\ flip' = a[2]
         /\ \E r \in {auth_bit(st, d_bit)} :
              /\ st' = r.st /\ stream' = stream \o r.y /\ keys' = keys \o r.ka
         /\ absorbed' = Append(absorbed, d_bit)
  /\ clocks' = clocks + 2
  /\ Advance(Iterations(Len(data)), AfterData)
  /\ UNCHANGED << inputs, aside, calls, call, der, der_len, txt, enc, tag,
                  first, second, ret,
                  writes, seeded >>

\* enc_and_auth_txt, loop body i = at, bit-serial build.  txt[i >> 3] is read
\* again in every iteration; a build that kept the byte it loaded earlier
\* works on `held`, what txt held when the call began.  [st, txt, enc, fed]
enc_and_auth_txt_bit(s, tbuf, ebuf, at, c, held) ==
  Only({ Only({ [st |-> update_register(accumulated, k[3]),
                 txt |-> IF c.alias THEN stored ELSE tbuf,
                 enc |-> stored, fed |-> t_bit,
                 ka |-> <<k[3]>>, y |-> <<k[2], k[3]>>]
                : accumulated \in {update_accumulator(k[1], t_bit)},
                  stored \in {set_bit(ebuf, Xor8(t_bit, k[2]), compute_index(at))} })
         : k \in {clock2(s)},
           t_bit \in {get_bit(IF c.alias /\ ~c.reload THEN held ELSE tbuf,
                              compute_index(at))} })

\* enc_and_auth_txt, for (i = 0; i < ctblen; i++): set_bit reads enc[i >> 3],
\* which nobody may have written yet
enc_txt_bit ==
  /\ pc = "text" /\ call.build = "bit" /\ call.op = "encrypt"
  /\ \E j \in Load(At(enc, pos \div 8)) :
       \E r \in {enc_and_auth_txt_bit(st, txt, [enc EXCEPT ![(pos \div 8) + 1] = j],
                                        pos, call, msg)} :
           /\ st' = r.st /\ txt' = r.txt /\ enc' = r.enc
           /\ absorbed' = Append(absorbed, r.fed)
           /\ stream' = stream \o r.y /\ keys' = keys \o r.ka
  /\ writes' = [writes EXCEPT !.enc = Append(@, pos \div 8)]
  /\ clocks' = clocks + 2
  /\ Advance(Iterations(Len(enc)), "pad")
  /\ UNCHANGED << inputs, aside, calls, call, der, der_len, data, tag, flip,
                  first, second, ret,
                  seeded >>

\* dec_and_auth_txt, loop body i = at, bit-serial build.  [st, txt, fed]
dec_and_auth_txt_bit(s, ebuf, tbuf, at) ==
  Only({ Only({ Only({ [st |-> update_register(accumulated, k[3]),
                        txt |-> set_bit(tbuf, t_bit, compute_index(at)),
                        fed |-> t_bit,
                        ka |-> <<k[3]>>, y |-> <<k[2], k[3]>>]
                       : accumulated \in {update_accumulator(k[1], t_bit)} })
                : t_bit \in {Xor8(get_bit(ebuf, compute_index(at)), k[2])} })
         : k \in {clock2(s)} })

\* dec_and_auth_txt, for (i = 0; i < ctblen; i++): set_bit reads txt[i >> 3],
\* which nobody may have written yet
dec_txt_bit ==
  /\ pc = "text" /\ call.build = "bit" /\ call.op = "decrypt"
  /\ \E a \in Arrivals(enc, "ct", pos \div 8, {pos % 8}) :
       \E j \in Load(At(txt, pos \div 8)) :
         \E r \in {dec_and_auth_txt_bit(st, a[1], [txt EXCEPT ![(pos \div 8) + 1] = j], pos)} :
             /\ enc' = a[1] /\ flip' = a[2]
             /\ st' = r.st /\ txt' = r.txt
             /\ absorbed' = Append(absorbed, r.fed)
             /\ stream' = stream \o r.y /\ keys' = keys \o r.ka
  /\ writes' = [writes EXCEPT !.txt = Append(@, pos \div 8)]
  /\ clocks' = clocks + 2
  /\ Advance(Iterations(Len(enc)), "pad")
  /\ UNCHANGED << inputs, aside, calls, call, der, der_len, data, tag,
                  first, second, ret,
                  seeded >>

\* auth_padding_bit, bit-serial build
auth_padding_bit ==
  /\ pc = "pad" /\ call.build = "bit"
  /\ \E r \in {auth_bit(st, padding_bit)} :
       /\ st' = r.st /\ stream' = stream \o r.y /\ keys' = keys \o r.ka
  /\ absorbed' = Append(absorbed, padding_bit)
  /\ clocks' = clocks + 2
  /\ pc' = "finish" /\ pos' = 0
  /\ UNCHANGED << inputs, aside, calls, call, der, der_len, data, txt, enc, tag, flip,
                  first, second, ret,
                  writes, seeded, phases >>

(***************************************************************************)
(* grain_128aead::encrypt and ::decrypt, the end of the call               *)
(***************************************************************************)

\* encrypt: std::memcpy(tag, st.acc, 8), and the result the caller keeps
encrypt_return ==
  /\ pc = "finish" /\ call.op = "encrypt"
  /\ tag' = st.acc
  /\ writes' = [writes EXCEPT !.tag = <<0, 1, 2, 3, 4, 5, 6, 7>>]
  /\ phases' = Append(phases, "memcpy")
  /\ \E r \in {[done |-> TRUE, enc |-> enc, tag |-> st.acc, absorbed |-> absorbed,
                 clocks |-> clocks, call |-> call]} :
         IF calls = 0
         THEN first' = r /\ second' = second
         ELSE second' = r /\ first' = first
  /\ calls' = calls + 1
  /\ pc' = "idle" /\ pos' = 0
  /\ UNCHANGED << inputs, aside, call, st, der, der_len, data, txt, enc, flip, ret,
                  absorbed, clocks,
                  stream, keys, seeded >>

\* tag with bit b (0..63) flipped
FlipTagBit(tg, b) == [tg EXCEPT ![(b \div 8) + 1] = Xor8(@, Pow2[(b % 8) + 1])]

\* The tags decrypt may find in its tag buffer, which it reads here for the
\* first time: the one encrypt produced, or on a hostile channel that tag with
\* one bit flipped, or a tag that happens to equal the accumulator.
\* <<tag, flip>>
TagArrivals ==
  { <<second.tag, flip>> } \cup
  (IF channel = "hostile" /\ flip = NoFlip
   THEN { << FlipTagBit(second.tag, b),
             [where |-> "tag", byte |-> b \div 8, bit |-> b % 8] >> : b \in 0..63 }
   ELSE {}) \cup
  (IF channel = "hostile" THEN { <<st.acc, flip>> } ELSE {})

RECURSIVE compare_early_exit(_, _, _, _)
\* The comparison loop leaving at the first byte that differs
compare_early_exit(acc_, tag_, i, c) ==
  IF i = 8 \/ c.flg THEN c
  ELSE Only({ compare_early_exit(acc_, tag_, i + 1, next)
              : next \in {[flg |-> c.flg \/ Xor8(At(acc_, i), At(tag_, i)) # 0,
                           visited |-> Append(c.visited, i)]} })

RECURSIVE compare(_, _, _, _)
\* decrypt: for (i = 0; i < 8; i++) flg |= st.acc[i] ^ tag[i], from iteration
\* i on.  c: flg so far and visited, the indices compared so far
compare(acc_, tag_, i, c) ==
  IF i = 8 THEN c
  ELSE Only({ compare(acc_, tag_, i + 1, next)
              : next \in {[flg |-> c.flg \/ Xor8(At(acc_, i), At(tag_, i)) # 0,
                           visited |-> Append(c.visited, i)]} })

\* bool flg = false, before the comparison loop
NotCompared == [flg |-> FALSE, visited |-> <<>>]

\* decrypt_verify whose memset forgets ctlen: memset(txt, 0, flg)
decrypt_verify_wipe_one(acc_, tag_, tbuf) ==
  LET flg == \E j \in 0..7 : Xor8(At(acc_, j), At(tag_, j)) # 0
      n   == IF flg THEN 1 ELSE 0
  IN  [done |-> TRUE, verified |-> ~flg,
       txt |-> [j \in 1..Len(tbuf) |-> IF j <= n THEN 0 ELSE tbuf[j]],
       wiped |-> [j \in 1..n |-> j - 1],
       visited |-> <<0, 1, 2, 3, 4, 5, 6, 7>>]

\* decrypt_verify whose comparison loop stops one byte early
decrypt_verify_7bytes(acc_, tag_, tbuf) ==
  LET flg == \E j \in 0..6 : Xor8(At(acc_, j), At(tag_, j)) # 0
      n   == Len(tbuf) * (IF flg THEN 1 ELSE 0)
  IN  [done |-> TRUE, verified |-> ~flg,
       txt |-> [j \in 1..Len(tbuf) |-> IF j <= n THEN 0 ELSE tbuf[j]],
       wiped |-> [j \in 1..n |-> j - 1],
       visited |-> <<0, 1, 2, 3, 4, 5, 6>>]

\* decrypt: the comparison loop, the memset and the returned flag.
\* [verified, txt, wiped, visited]: wiped the indices of txt the memset stored
\* to, visited the indices the comparison loop compared
decrypt_verify(acc_, tag_, tbuf) ==
  Only({ LET n == Len(tbuf) * (IF c.flg THEN 1 ELSE 0)
         IN  [done |-> TRUE, verified |-> ~c.flg,
              txt |-> [j \in 1..Len(tbuf) |-> IF j <= n THEN 0 ELSE tbuf[j]],
              wiped |-> [j \in 1..n |-> j - 1],
              visited |-> c.visited]
         : c \in {compare(acc_, tag_, 0, NotCompared)} })

\* decrypt: compare, wipe, return
decrypt_return ==
  /\ pc = "finish" /\ call.op = "decrypt"
  /\ \E a \in TagArrivals :
       \E r \in {decrypt_verify(st.acc, a[1], txt)} :
         /\ tag' = a[1] /\ flip' = a[2]
         /\ ret' = r
         /\ txt' = r.txt
         /\ writes' = [writes EXCEPT !.txt = @ \o r.wiped]
  /\ phases' = Append(phases, "compare")
  /\ calls' = calls + 1
  /\ pc' = "idle" /\ pos' = 0
  /\ UNCHANGED << inputs, aside, call, st, der, der_len, data, enc, first, second,
                  absorbed, clocks,
                  stream, keys, seeded >>

Next ==
  \/ encrypt_call
  \/ decrypt_call
  \/ initialize_t40
  \/ initialize_t8_key
  \/ initialize_t8_acc
  \/ initialize_t8_sreg
  \/ auth_associated_data_der
  \/ auth_der_byte
  \/ auth_data_byte
  \/ enc_txt_byte
  \/ dec_txt_byte
  \/ auth_padding_byte
  \/ auth_der_bit
  \/ auth_data_bit
  \/ enc_txt_bit
  \/ dec_txt_bit
  \/ auth_padding_bit
  \/ encrypt_return
  \/ decrypt_return

Spec == Init /\ [][Next]_vars

SpecKAT == InitKAT /\ [][Next]_vars

\* A step of a call under way.  encrypt and decrypt are straight-line code
\* around for loops: they take no lock, wait for nothing and call nothing
\* that could, so a call under way takes its next step
Running == pc # "idle" /\ Next

\* The runs of the calls to their return: the key and nonce of the README,
\* the longest associated data, no message or the longest message, over a
\* channel that may change one bit
InitLive ==
  /\ channel = "hostile"
  /\ key = ReadmeKey /\ nonce = ReadmeNonce
  /\ ad = SubSeq(ReadmeData, 1, MaxAdLen)
  /\ msg \in {<<>>, SubSeq(ReadmeText, 1, MaxMsgLen)}
  /\ Idle /\ Sequential

SpecLive == InitLive /\ [][Next]_vars /\ WF_vars(Running)

(***************************************************************************)
(* initialize beside the cipher clocked one bit at a time                  *)
(***************************************************************************)

\* Bit n of the key, bit 0 being the least significant bit of key[0]
K_bit(n) == get_bit(key, compute_index(n))

\* The bits XORed into the new LFSR bit and the new NFSR bit at clock t_ of
\* the initialization, yt being the pre-output bit of that clock
Overlay(t_, yt) ==
  IF t_ < 320 THEN <<yt, yt>>
  ELSE IF t_ < 384
       THEN << Xor8(yt, K_bit(t_ - 320 + 64)), Xor8(yt, K_bit(t_ - 320)) >>
       ELSE <<0, 0>>

\* One clock of the single-bit functions ksb, l, f and update on the
\* registers r, with the overlay of clock r.t
RefClock(r) ==
  Only({ [t |-> r.t + 1,
          lfsr |-> update(r.lfsr, Xor8(l(r), ov[1])),
          nfsr |-> update(r.nfsr, Xor8(f(r), ov[2])),
          y |-> Append(r.y, yt[1])]
         : yt \in {<<ksb(r)>>}, ov \in {Overlay(r.t, ksb(r))} })

\* The single-bit cipher catches up with the clocks initialize has made
ref_clock ==
  /\ pc \in {"mix", "key", "acc", "sreg", "aad"}
  /\ ref.t < clocks
  /\ ref' = RefClock(ref)
  /\ UNCHANGED << inputs, calls, call, pc, pos, st, der, der_len, data, txt, enc, tag,
                  flip, first, second, ret, absorbed, clocks, stream, keys, writes,
                  seeded, phases, lab, threads, stack >>

\* initialize of one call, with the single-bit cipher loaded with the same
\* key and nonce
InitRef ==
  /\ channel = "faithful"
  /\ \E kn \in KeyNonces : key = kn[1] /\ nonce = kn[2]
  /\ ad = <<>> /\ msg = <<>>
  /\ Idle
  /\ ref = [t |-> 0, lfsr |-> nonce \o <<255, 255, 255, 127>>, nfsr |-> key, y |-> <<>>]
  /\ lab = NoLab /\ threads = <<>> /\ stack = <<>>

\* The single-bit cipher has made every clock initialize has made
CaughtUp == ref.t = clocks

NextRef ==
  \/ CaughtUp /\ encrypt_call
  \/ CaughtUp /\ initialize_t40
  \/ CaughtUp /\ initialize_t8_key
  \/ CaughtUp /\ initialize_t8_acc
  \/ CaughtUp /\ initialize_t8_sreg
  \/ ref_clock

SpecRef == InitRef /\ [][NextRef]_vars

(***************************************************************************)
(* The 8-wide functions beside the single-bit functions                    *)
(***************************************************************************)

\* The register states a run starts from: the two loads of initialize,
\* registers of arbitrary bytes, registers of ones
LabStates ==
  { [lfsr |-> kn[2] \o <<255, 255, 255, 127>>, nfsr |-> kn[1],
     acc |-> SubSeq(ReadmeData, 1, 8), sreg |-> SubSeq(ReadmeText, 1, 8)]
    : kn \in KeyNonces }
  \cup { [lfsr |-> SubSeq(ReadmeData, 1, 16), nfsr |-> SubSeq(ReadmeText, 1, 16),
           acc |-> SubSeq(ReadmeData, 17, 24), sreg |-> SubSeq(ReadmeText, 17, 24)],
         [lfsr |-> Fill(16, 255), nfsr |-> Fill(16, 255),
           acc |-> Fill(8, 0), sreg |-> Fill(8, 255)] }

\* The overlays of an 8-wide clock: the pre-output byte or not, XOR a byte
\* for each register
LabOverlays ==
  { [fb |-> b, ovl |-> o[1], ovn |-> o[2]] : b \in BOOLEAN, o \in {<<0, 0>>, <<165, 60>>} }

\* Message bytes and authentication bytes given to authenticated_byte
LabMsgs == {0, 1, 165, 255}
LabKeys == {90, 165}

\* lab: mixed the iterations of the first loop of initialize made on the
\* start state, s the state the experiment starts from, wide the state after the
\* 8-wide function, y its pre-output byte, narrow the state after k single-bit
\* steps, ys their pre-output bits, o the overlays, mb and ka the bytes given
\* to authenticated_byte
LabStart(s) ==
  [test |-> "start", mixed |-> 0, s |-> s, wide |-> s, y |-> 0, narrow |-> s, ys |-> <<>>, k |-> 8,
   o |-> [fb |-> FALSE, ovl |-> 0, ovn |-> 0], mb |-> 0, ka |-> 0]

\* The other variables of a run of experiments
LabFrame ==
  UNCHANGED << inputs, calls, call, pc, pos, st, der, der_len, data, txt, enc, tag,
               flip, first, second, ret, absorbed, clocks, stream, keys, writes,
               seeded, phases, ref, threads, stack >>

\* One iteration of the first loop of initialize, before any experiment
lab_mix ==
  /\ lab.test = "start" /\ lab.mixed < 40
  /\ \E mixed \in {initialize_mix(lab.wide)} :
       lab' = [lab EXCEPT !.mixed = @ + 1, !.s = mixed, !.wide = mixed, !.narrow = mixed]
  /\ LabFrame

\* One 8-wide clock as initialize and the byte-parallel loops make it:
\* yt = ksb8, then lfsr and nfsr updated with l8 and f8 XOR the overlays
lab_clock8 ==
  /\ lab.test = "start"
  /\ \E o \in LabOverlays :
       \E yt \in {ksb8(lab.wide)} :
         \E fed \in {IF o.fb THEN yt ELSE 0} :
           lab' = [lab EXCEPT !.test = "clock", !.s = lab.wide, !.y = yt,
                              !.wide = Clock8(lab.wide, Xor8(fed, o.ovl), Xor8(fed, o.ovn)),
                              !.narrow = lab.wide, !.ys = <<>>, !.k = 0, !.o = o]
  /\ LabFrame

\* One single-bit clock: yt = ksb, then lfsr and nfsr updated with l and f
\* XOR bit k of the overlays
lab_clock1 ==
  /\ lab.test = "clock" /\ lab.k < 8
  /\ \E yt \in {ksb(lab.narrow)} :
       \E fed \in {IF lab.o.fb THEN yt ELSE 0} :
         \E s127 \in {Xor8(l(lab.narrow), Xor8(fed, Bits8(lab.o.ovl)[lab.k + 1]))} :
           \E b127 \in {Xor8(f(lab.narrow), Xor8(fed, Bits8(lab.o.ovn)[lab.k + 1]))} :
             lab' = [lab EXCEPT !.narrow = update_nfsr(update_lfsr(lab.narrow, s127), b127),
                                !.ys = Append(@, yt), !.k = @ + 1]
  /\ LabFrame

\* authenticated_byte on a message byte and an authentication byte, either
\* on the acc and sreg of the start state or on an acc and sreg of arbitrary
\* bytes, those of the registers
lab_auth8 ==
  /\ lab.test = "start"
  /\ \E m \in LabMsgs, a \in LabKeys, own \in BOOLEAN :
       \E s \in {IF own THEN lab.wide
                  ELSE [lab.wide EXCEPT !.acc = SubSeq(lab.wide.lfsr, 1, 8),
                                        !.sreg = SubSeq(lab.wide.nfsr, 9, 16)]} :
         lab' = [lab EXCEPT !.test = "auth", !.s = s,
                            !.wide = authenticated_byte(s, m, a),
                            !.narrow = s, !.ys = <<>>, !.k = 0, !.mb = m, !.ka = a]
  /\ LabFrame

\* update_accumulator on bit k of the message byte, then update_register on
\* bit k of the authentication byte, as the bit-serial loops call them
lab_auth1 ==
  /\ lab.test = "auth" /\ lab.k < 8
  /\ \E accumulated \in {update_accumulator(lab.narrow, Bits8(lab.mb)[lab.k + 1])} :
       lab' = [lab EXCEPT !.narrow = update_register(accumulated, Bits8(lab.ka)[lab.k + 1]),
                          !.k = @ + 1]
  /\ LabFrame

InitLab ==
  /\ channel = "faithful"
  /\ key = Fill(16, 0) /\ nonce = Fill(12, 0) /\ ad = <<>> /\ msg = <<>>
  /\ Idle
  /\ \E s \in LabStates : lab = LabStart(s)
  /\ ref = NoRef /\ threads = <<>> /\ stack = <<>>

NextLab ==
  \/ lab_mix
  \/ lab_clock8
  \/ lab_clock1
  \/ lab_auth8
  \/ lab_auth1

SpecLab == InitLab /\ [][NextLab]_vars

(***************************************************************************)
(* Calls made by two threads, each on buffers of its own                   *)
(***************************************************************************)

\* The calls each thread makes, one after the other: thread 1 encrypts and
\* then decrypts what it encrypted, thread 2 encrypts
ThreadOps == << <<"encrypt", "decrypt">>, <<"encrypt">> >>

\* The key, nonce, associated data and message of each thread
ThreadInputs ==
  << [key |-> ReadmeKey, nonce |-> ReadmeNonce,
      ad |-> SubSeq(ReadmeData, 1, MaxAdLen), msg |-> SubSeq(ReadmeText, 1, MaxMsgLen)],
     [key |-> Fill(16, 0), nonce |-> Fill(12, 0),
      ad |-> SubSeq(ReadmeText, 3, MaxAdLen + 2), msg |-> SubSeq(ReadmeData, 3, MaxMsgLen + 2)] >>

\* The automatic variables of a call that has not begun: state_t st of
\* encrypt / decrypt, der and der_len of auth_associated_data; by is the
\* call that wrote to the frame last, <<thread, number of the call>>
NoFrame ==
  [st |-> [lfsr |-> Fill(16, Undef), nfsr |-> Fill(16, Undef),
           acc |-> Fill(8, Undef), sreg |-> Fill(8, Undef)],
   der |-> Fill(9, Undef), der_len |-> 0, by |-> <<0, 0>>]

\* One frame for all threads
frame_shared(t) == 1

\* state_t st is an automatic variable: every thread has its frame on its own
\* stack, and the calls a thread makes one after the other reuse the frame
frame_of(t) == t

\* A thread that has made no call
NoThread ==
  [n |-> 1, pc |-> "idle", pos |-> 0, data |-> <<>>, txt |-> <<>>, enc |-> <<>>,
   tag |-> Fill(8, Undef), out |-> <<>>, alone |-> <<>>, fed |-> <<>>]

\* The loop that follows the DER loop and the associated data loop of a thread
AfterDataOf(th) == IF Len(th.enc) > 0 THEN "text" ELSE "pad"
AfterDerOf(th)  == IF Len(th.data) > 0 THEN "data" ELSE AfterDataOf(th)

\* Where a thread is in its calls
Place(th) == <<th.n, th.pc, th.pos>>

\* Thread t may take a step: when the calls run alone, a thread makes its calls
\* after the threads before it have returned from theirs; when two calls are
\* made in step, thread 1 takes a step and thread 2 takes the same step next
Turn(t) ==
  /\ t \in DOMAIN threads.of
  /\ CASE threads.mode = "together" -> TRUE
       [] threads.mode = "alone" -> \A u \in 1..(t - 1) : threads.of[u].pc = "done"
       [] OTHER -> (t = 1) = (Place(threads.of[1]) = Place(threads.of[2]))

\* A call of a thread is under way
Calling(th) == th.pc \notin {"idle", "done"}

\* Thread t goes on with th, its frame with fr; overlapped records that a call
\* took a step while a call of another thread was under way
Goes(t, th, fr) ==
  /\ threads' = [threads EXCEPT
                   !.of[t] = th,
                   !.overlapped = @ \/ (/\ Calling(threads.of[t])
                                        /\ \E u \in DOMAIN threads.of :
                                             u # t /\ Calling(threads.of[u]))]
  /\ stack' = [stack EXCEPT ![frame_of(t)] = [fr EXCEPT !.by = <<t, threads.of[t].n>>]]

\* The variables of the sequential caller
ThreadFrame ==
  UNCHANGED << inputs, calls, call, pc, pos, st, der, der_len, data, txt, enc, tag,
               flip, first, second, ret, absorbed, clocks, stream, keys, writes,
               seeded, phases, ref, lab >>

\* encrypt / decrypt is called: state_t st is what the frame holds (nothing
\* yet when the call runs alone), then initialize loads key and nonce
thread_call(t) ==
  /\ Turn(t) /\ threads.of[t].pc = "idle"
  /\ \E th \in {threads.of[t]}, in \in {threads.in[t]} :
       \E fr \in {IF threads.mode = "alone" THEN NoFrame ELSE stack[frame_of(t)]} :
         Goes(t,
              IF threads.ops[t][th.n] = "encrypt"
              THEN [th EXCEPT !.pc = "mix", !.pos = 0, !.data = in.ad, !.txt = in.msg,
                              !.enc = Fill(Len(in.msg), Undef), !.tag = Fill(8, Undef),
                              !.fed = <<>>]
              ELSE [th EXCEPT !.pc = "mix", !.pos = 0, !.data = in.ad,
                              !.enc = th.out[th.n - 1].enc, !.tag = th.out[th.n - 1].tag,
                              !.txt = Fill(Len(in.msg), Undef), !.fed = <<>>],
              [fr EXCEPT !.st = initialize_load(fr.st, in.key, in.nonce)])
  /\ ThreadFrame

\* One iteration of one of the four loops of initialize
thread_initialize(t) ==
  /\ Turn(t) /\ threads.of[t].pc \in {"mix", "key", "acc", "sreg"}
  /\ \E th \in {threads.of[t]}, fr \in {stack[frame_of(t)]} :
       \E limit \in {IF th.pc = "mix" THEN 40 ELSE 8},
          after \in {CASE th.pc = "mix" -> "key" [] th.pc = "key" -> "acc"
                       [] th.pc = "acc" -> "sreg" [] OTHER -> "aad"},
          mixed \in {CASE th.pc = "mix" -> initialize_mix(fr.st)
                       [] th.pc = "key" -> initialize_key(fr.st, threads.in[t].key, th.pos)
                       [] th.pc = "acc" -> initialize_acc(fr.st, th.pos)
                       [] OTHER -> initialize_sreg(fr.st, th.pos)} :
         Goes(t,
              IF th.pos + 1 < limit THEN [th EXCEPT !.pos = @ + 1]
              ELSE [th EXCEPT !.pc = after, !.pos = 0],
              [fr EXCEPT !.st = mixed])
  /\ ThreadFrame

\* auth_associated_data: uint8_t der[9]{}; der_len = encode_der(dlen, der)
thread_der(t) ==
  /\ Turn(t) /\ threads.of[t].pc = "aad"
  /\ \E th \in {threads.of[t]}, fr \in {stack[frame_of(t)]} :
       \E e \in {encode_der(Len(th.data))} :
         Goes(t, [th EXCEPT !.pc = "der", !.pos = 0],
              [fr EXCEPT !.der = e[1], !.der_len = e[2]])
  /\ ThreadFrame

\* auth_associated_data: one iteration of the DER loop or of the data loop.
\* fed: the bytes the call has given to authenticated_byte, in order
thread_data(t) ==
  /\ Turn(t) /\ threads.of[t].pc \in {"der", "data"}
  /\ \E th \in {threads.of[t]}, fr \in {stack[frame_of(t)]} :
       \E limit \in {IF th.pc = "der" THEN fr.der_len ELSE Len(th.data)},
          after \in {IF th.pc = "der" THEN AfterDerOf(th) ELSE AfterDataOf(th)},
          mb \in {IF th.pc = "der" THEN At(fr.der, th.pos) ELSE At(th.data, th.pos)} :
         \E r \in {auth_byte(fr.st, mb)} :
           Goes(t,
                IF th.pos + 1 < limit THEN [th EXCEPT !.pos = @ + 1, !.fed = Append(@, mb)]
                ELSE [th EXCEPT !.pc = after, !.pos = 0, !.fed = Append(@, mb)],
                [fr EXCEPT !.st = r.st])
  /\ ThreadFrame

\* enc_and_auth_txt / dec_and_auth_txt: one iteration
thread_text(t) ==
  /\ Turn(t) /\ threads.of[t].pc = "text"
  /\ \E th \in {threads.of[t]}, fr \in {stack[frame_of(t)]} :
       \E r \in {IF threads.ops[t][th.n] = "encrypt"
                 THEN Only({ [st |-> e.st, txt |-> e.txt, enc |-> e.enc, fed |-> e.fed]
                             : e \in {enc_and_auth_txt(fr.st, th.txt, th.enc, th.pos,
                                                       [alias |-> FALSE,
                                                        reload |-> FALSE])} })
                 ELSE Only({ [st |-> d.st, txt |-> d.txt, enc |-> th.enc, fed |-> d.fed]
                             : d \in {dec_and_auth_txt(fr.st, th.enc, th.txt,
                                                       th.pos)} })} :
         Goes(t,
              IF th.pos + 1 < Len(th.enc)
              THEN [th EXCEPT !.pos = @ + 1, !.txt = r.txt, !.enc = r.enc,
                              !.fed = Append(@, r.fed)]
              ELSE [th EXCEPT !.pc = "pad", !.pos = 0, !.txt = r.txt, !.enc = r.enc,
                              !.fed = Append(@, r.fed)],
              [fr EXCEPT !.st = r.st])
  /\ ThreadFrame

\* auth_padding_bit
thread_padding(t) ==
  /\ Turn(t) /\ threads.of[t].pc = "pad"
  /\ \E th \in {threads.of[t]}, fr \in {stack[frame_of(t)]} :
       \E r \in {auth_byte(fr.st, padding)} :
         Goes(t, [th EXCEPT !.pc = "finish", !.fed = Append(@, padding)],
              [fr EXCEPT !.st = r.st])
  /\ ThreadFrame

\* encrypt: memcpy(tag, st.acc, 8).  decrypt: compare, memset, return !flg.
\* The frame keeps what the call left in it.
thread_return(t) ==
  /\ Turn(t) /\ threads.of[t].pc = "finish"
  /\ \E th \in {threads.of[t]}, fr \in {stack[frame_of(t)]} :
       \E next \in {IF th.n < Len(threads.ops[t]) THEN "idle" ELSE "done"} :
         IF threads.ops[t][th.n] = "encrypt"
         THEN Goes(t, [th EXCEPT !.pc = next, !.n = @ + 1, !.tag = fr.st.acc,
                                 !.out = Append(@, [op |-> "encrypt", enc |-> th.enc,
                                                    tag |-> fr.st.acc])],
                   fr)
         ELSE \E r \in {decrypt_verify(fr.st.acc, th.tag, th.txt)} :
                Goes(t, [th EXCEPT !.pc = next, !.n = @ + 1, !.txt = r.txt,
                                   !.out = Append(@, [op |-> "decrypt",
                                                      verified |-> r.verified,
                                                      txt |-> r.txt])],
                     fr)
  /\ ThreadFrame

\* Every call has been made alone; the threads now make the same calls side
\* by side, on the stacks as the calls before left them
run_together ==
  /\ threads.mode = "alone"
  /\ \A t \in DOMAIN threads.of : threads.of[t].pc = "done"
  /\ threads' = [mode |-> "together", overlapped |-> FALSE,
                 ops |-> threads.ops, in |-> threads.in,
                 of |-> [t \in DOMAIN threads.of |->
                           [NoThread EXCEPT !.alone = threads.of[t].out]]]
  /\ UNCHANGED stack
  /\ ThreadFrame

InitThreads ==
  /\ channel = "faithful"
  /\ key = Fill(16, 0) /\ nonce = Fill(12, 0) /\ ad = <<>> /\ msg = <<>>
  /\ Idle
  /\ ref = NoRef /\ lab = NoLab
  /\ threads = [mode |-> "alone", overlapped |-> FALSE,
                ops |-> ThreadOps, in |-> ThreadInputs,
                of |-> [t \in 1..Len(ThreadOps) |-> NoThread]]
  /\ stack = [t \in 1..Len(ThreadOps) |-> NoFrame]

NextThreads ==
  \/ \E t \in 1..Len(ThreadOps) : thread_call(t)
  \/ \E t \in 1..Len(ThreadOps) : thread_initialize(t)
  \/ \E t \in 1..Len(ThreadOps) : thread_der(t)
  \/ \E t \in 1..Len(ThreadOps) : thread_data(t)
  \/ \E t \in 1..Len(ThreadOps) : thread_text(t)
  \/ \E t \in 1..Len(ThreadOps) : thread_padding(t)
  \/ \E t \in 1..Len(ThreadOps) : thread_return(t)
  \/ run_together

SpecThreads == InitThreads /\ [][NextThreads]_vars

(***************************************************************************)
(* Two encrypt calls made in step, on one key and nonce                    *)
(***************************************************************************)

\* Associated data, or messages, of one length: those of the exhaustive runs
\* beside other bytes, zeros, and themselves
PairsOf(bufs, others) ==
  UNION { { <<b, c>> : c \in {b, SubSeq(others, 1, Len(b)), Fill(Len(b), 0)} }
          : b \in bufs }

InitPair ==
  /\ channel = "faithful"
  /\ key = Fill(16, 0) /\ nonce = Fill(12, 0) /\ ad = <<>> /\ msg = <<>>
  /\ Idle
  /\ ref = NoRef /\ lab = NoLab
  /\ \E kn \in KeyNonces, ads \in PairsOf(AdInputs, ReadmeText),
        msgs \in PairsOf(MsgInputs, ReadmeData) :
       threads = [mode |-> "in step", overlapped |-> FALSE,
                  ops |-> << <<"encrypt">>, <<"encrypt">> >>,
                  in |-> << [key |-> kn[1], nonce |-> kn[2],
                             ad |-> ads[1], msg |-> msgs[1]],
                            [key |-> kn[1], nonce |-> kn[2],
                             ad |-> ads[2], msg |-> msgs[2]] >>,
                  of |-> <<NoThread, NoThread>>]
  /\ stack = <<NoFrame, NoFrame>>

NextPair ==
  \/ \E t \in 1..2 : thread_call(t)
  \/ \E t \in 1..2 : thread_initialize(t)
  \/ \E t \in 1..2 : thread_der(t)
  \/ \E t \in 1..2 : thread_data(t)
  \/ \E t \in 1..2 : thread_text(t)
  \/ \E t \in 1..2 : thread_padding(t)
  \/ \E t \in 1..2 : thread_return(t)

SpecPair == InitPair /\ [][NextPair]_vars

\* The associated data and messages of two calls whose authenticated bytes
\* are compared: those of the exhaustive runs, and the associated data given
\* as the message
StreamInputs ==
  { [key |-> ReadmeKey, nonce |-> ReadmeNonce, ad |-> a, msg |-> m]
    : a \in AdInputs, m \in MsgInputs \cup AdInputs }

\* Two encrypt calls, one after the other, on any two of the inputs
InitStreams ==
  /\ channel = "faithful"
  /\ key = Fill(16, 0) /\ nonce = Fill(12, 0) /\ ad = <<>> /\ msg = <<>>
  /\ Idle
  /\ ref = NoRef /\ lab = NoLab
  /\ \E one \in StreamInputs, two \in StreamInputs :
       threads = [mode |-> "alone", overlapped |-> FALSE,
                  ops |-> << <<"encrypt">>, <<"encrypt">> >>,
                  in |-> <<one, two>>,
                  of |-> <<NoThread, NoThread>>]
  /\ stack = <<NoFrame, NoFrame>>

SpecStreams == InitStreams /\ [][NextPair]_vars

(***************************************************************************)
(* Functions called on their own                                           *)
(***************************************************************************)

\* No function has been called yet
Ready == [test |-> "ready"]

\* The variables of the calls, untouched when a function is called on its own
UnitFrame ==
  UNCHANGED << inputs, calls, call, pc, pos, st, der, der_len, data, txt, enc, tag,
               flip, first, second, ret, absorbed, clocks, stream, keys, writes,
               seeded, phases, ref, threads, stack >>

\* std::bit_width of a size_t given as its 8 bytes, least significant first
bit_width64(d) ==
  IF \A i \in 1..8 : d[i] = 0 THEN 0
  ELSE Only({ 8 * (top - 1) + bit_width(d[top])
              : top \in {i \in 1..8 : d[i] # 0 /\ \A j \in (i + 1)..8 : d[j] = 0} })

\* encode_der on a size_t given as its 8 bytes, least significant first:
\* (dlen & (0xff << (k << 3))) >> (k << 3) is byte k of dlen.  wrote: the
\* indices of der written, in order, those of memset first
encode_der64(d) ==
  IF d[1] < 128 /\ \A i \in 2..8 : d[i] = 0
  THEN [der |-> [i \in 1..9 |-> IF i = 1 THEN d[1] ELSE 0], len |-> 1,
        wrote |-> [i \in 1..9 |-> i - 1] \o <<0>>]
  ELSE Only({ [der |-> [i \in 1..9 |->
                          IF i = 1 THEN Xor8(128, fcbc)
                          ELSE IF i - 1 <= fcbc THEN d[(fcbc - (i - 1)) + 1] ELSE 0],
               len |-> fcbc + 1,
               wrote |-> [i \in 1..9 |-> i - 1] \o <<0>> \o [i \in 1..fcbc |-> i]]
              : fcbc \in {(bit_width64(d) \div 8)
                          + (IF bit_width64(d) % 8 > 0 THEN 1 ELSE 0)} })

\* The lengths encode_der is called with: the short ones, and the ones at
\* which the number of length bytes changes, up to the largest integer here
DerLens ==
  0..300 \cup {65535, 65536, 16777215, 16777216, 2147483647}

\* The bytes a wide length is made of
DerBytes == {0, 1, 128, 255}

\* encode_der(dlen, der)
unit_encode_der ==
  /\ lab = Ready
  /\ \E dlen \in DerLens :
       \E e \in {encode_der(dlen)} :
         lab' = [test |-> "encode_der", dlen |-> dlen, der |-> e[1], len |-> e[2]]
  /\ UnitFrame

\* encode_der(dlen, der) on a length of up to 64 bits
unit_encode_der64 ==
  /\ lab = Ready
  /\ \E d \in [1..8 -> DerBytes] :
       \E e \in {encode_der64(d)} :
         lab' = [test |-> "encode_der64", d |-> d, der |-> e.der, len |-> e.len,
                 wrote |-> e.wrote]
  /\ UnitFrame

unit_split_bits ==
  /\ lab = Ready
  /\ \E first_ \in 0..255, second_ \in 0..255 :
       \E splitted \in {split_bits(first_, second_)} :
         lab' = [test |-> "split_bits", first |-> first_, second |-> second_,
                 even |-> splitted[1], odd |-> splitted[2]]
  /\ UnitFrame

\* static_cast<uint32_t> of a uint8_t: a uint32_t as its 32 bits, least
\* significant first
Bits32(v) == [k \in 1..32 |-> IF k <= 8 THEN Shr(v, k - 1) % 2 ELSE 0]

\* uint32_t mid = 0u
Zero32 == [k \in 1..32 |-> 0]

\* a | b on uint32_t
Or32(a, b) == [k \in 1..32 |-> IF a[k] = 1 \/ b[k] = 1 THEN 1 ELSE 0]

\* a << n on uint32_t, n < 32
Shl32(a, n) == [k \in 1..32 |-> IF k - n >= 1 THEN a[k - n] ELSE 0]

\* a << n on uint32_t as the build computes it.  A count of 32 or more is
\* undefined: the shift instruction takes the count modulo 32, or shifts
\* every bit out
ShlWide32(a, n) == IF n < 32 THEN {Shl32(a, n)} ELSE {Shl32(a, n % 32), Zero32}

\* arr[i] of a byte array, read where the code reads it.  An index past the
\* end reads whatever lies behind the array
ReadAt(arr, i) == IF i < Len(arr) THEN {At(arr, i)} ELSE Junk

RECURSIVE mid_loop(_, _, _, _, _)
\* get_32bits: for (i = 0; i < mid_bytes; i++)
\*   mid |= static_cast<uint32_t>(arr[off + i]) << (i << 3),
\* from iteration i on.  The values mid can have after the loop
mid_loop(arr, off, mid_bytes, i, mid) ==
  IF i = mid_bytes THEN {mid}
  ELSE UNION { UNION { mid_loop(arr, off, mid_bytes, i + 1, Or32(mid, sh))
                       : sh \in ShlWide32(Bits32(b), i * 8) }
               : b \in ReadAt(arr, off + i) }

\* get_32bits(arr, sidx): the outcomes of a call.  res the value returned,
\* shifts the counts of the shifts of a uint32_t, reads the indices of arr
\* read, both in the order of the code
get_32bits(arr, sidx) ==
  LET eidx      == sidx + 31
      sidx_     == compute_index(sidx)
      eidx_     == compute_index(eidx)
      lo        == Shr(At(arr, sidx_[1]), sidx_[2])
      hi        == Shl8(At(arr, eidx_[1]), 7 - eidx_[2])
      mid_bytes == eidx_[1] - sidx_[1] + 1
      lsb       == Bits32(lo)
      off       == sidx_[1] + 1
  IN  { [res |-> Or32(Or32(msb, Shl32(mid, 8 - sidx_[2])), lsb),
         shifts |-> <<mid_bytes * 8>> \o [i \in 1..mid_bytes |-> (i - 1) * 8]
                    \o <<8 - sidx_[2]>>,
         reads |-> <<sidx_[1], eidx_[1]>> \o [i \in 1..mid_bytes |-> off + i - 1]]
        : msb \in ShlWide32(Bits32(hi), mid_bytes * 8),
          mid \in mid_loop(arr, off, mid_bytes, 0, Zero32) }

\* The registers get_32bits is called on
Windows ==
  { ReadmeKey, Fill(16, 255), Fill(16, 0),
    <<1, 0, 0, 128, 0, 0, 0, 0, 0, 0, 0, 0, 0, 0, 0, 0>>,
    <<0, 0, 0, 0, 0, 0, 0, 0, 0, 0, 0, 0, 165, 90, 60, 195>> }

\* get_32bits(arr, sidx), sidx + 31 <= 127
unit_get_32bits ==
  /\ lab = Ready
  /\ \E arr \in Windows, sidx \in 0..96 :
       \E g \in get_32bits(arr, sidx) :
         lab' = [test |-> "get_32bits", arr |-> arr, sidx |-> sidx, res |-> g.res,
                 shifts |-> g.shifts, reads |-> g.reads]
  /\ UnitFrame

\* len << 3 on a size_t of 64 bits given as its 8 bytes, least significant
\* first: the bits shifted out of byte 7 are lost
bit_length(d) ==
  [i \in 1..8 |-> ((d[i] * 8) % 256) + (IF i = 1 THEN 0 ELSE Shr(d[i - 1], 5))]

\* The bytes the lengths of the bit-serial loops are made of
LenBytes == {0, 31, 32, 255}

\* const size_t dblen = dlen << 3 of auth_associated_data, next to the
\* encode_der(dlen, der) before it; const size_t ctblen = ctlen << 3 of
\* enc_and_auth_txt and dec_and_auth_txt is the same expression
unit_bit_length ==
  /\ lab = Ready
  /\ \E d \in [1..8 -> LenBytes] :
       \E e \in {encode_der64(d)} :
         lab' = [test |-> "bit_length", d |-> d, blen |-> bit_length(d),
                 der |-> e.der, len |-> e.len]
  /\ UnitFrame

InitUnits ==
  /\ channel = "faithful"
  /\ key = Fill(16, 0) /\ nonce = Fill(12, 0) /\ ad = <<>> /\ msg = <<>>
  /\ Idle
  /\ lab = Ready
  /\ ref = NoRef /\ threads = <<>> /\ stack = <<>>

NextUnits ==
  \/ unit_split_bits
  \/ unit_encode_der
  \/ unit_encode_der64
  \/ unit_get_32bits
  \/ unit_bit_length

SpecUnits == InitUnits /\ [][NextUnits]_vars

(***************************************************************************)
(* Properties                                                              *)
(***************************************************************************)

\* decrypt has returned, having been given exactly what the second encrypt
\* call produced
Honest == calls = 3 /\ flip = NoFlip /\ tag = second.tag

\* n zero bytes, as a buffer
Zeros(n) == [j \in 1..n |-> 0]

\* C1: round trip.  Whatever encrypt (either build, distinct buffers) produced
\* from key, nonce, ad and msg, decrypt of exactly that returns true and
\* writes msg.
C1_RoundTrip ==
  (Honest /\ ~second.call.alias) =>
    (ret.verified /\ ret.txt = msg /\ txt = msg)

C1_Witness ==
  /\ Honest /\ ~second.call.alias /\ second.call.build = "byte"
  /\ Len(msg) = MaxMsgLen /\ Len(ad) = MaxAdLen
  /\ ret.verified /\ txt = msg /\ enc # msg

\* What the key stream recovers from the cipher text decrypt was given: the
\* message, with the bit the channel flipped in the cipher text flipped
Recovered ==
  IF flip.where = "ct"
  THEN [msg EXCEPT ![flip.byte + 1] = Xor8(@, Pow2[flip.bit + 1])]
  ELSE msg

\* C2: decrypt is all or nothing.  When the accumulator differs from the tag
\* decrypt returns false and every byte of the plain text buffer is zero; when
\* they are equal it returns true and the buffer holds the whole recovered
\* message.
C2_AllOrNothing ==
  calls = 3 =>
    /\ ret.txt = txt /\ Len(txt) = Len(enc)
    /\ IF st.acc # tag
       THEN ~ret.verified /\ txt = Zeros(Len(enc))
       ELSE ret.verified /\ txt = Recovered

C2_Witness ==
  /\ calls = 3 /\ st.acc # tag /\ flip.where = "ct" /\ flip.byte = MaxMsgLen - 1
  /\ Len(txt) = MaxMsgLen /\ txt = Zeros(MaxMsgLen) /\ Recovered # Zeros(MaxMsgLen)
  /\ ~ret.verified

\* C3: tag sensitivity.  decrypt given the tag of encrypt with any one of its
\* 64 bits flipped, everything else as encrypt produced it, returns false and
\* leaves a plain text buffer of |ct| zero bytes.
C3_TagSensitivity ==
  (calls = 3 /\ flip.where = "tag" /\ ~second.call.alias) =>
    (~ret.verified /\ txt = Zeros(Len(second.enc)) /\ Len(txt) = Len(second.enc))

C3_Witness ==
  /\ calls = 3 /\ flip.where = "tag" /\ flip.byte = 7 /\ flip.bit = 7
  /\ ~second.call.alias /\ Len(msg) = MaxMsgLen /\ msg # Zeros(MaxMsgLen)
  /\ ~ret.verified /\ txt = Zeros(MaxMsgLen)

\* C4: cipher text and associated data sensitivity.  decrypt given the tag
\* encrypt produced, and the cipher text or the associated data with one bit
\* flipped, returns false.
C4_DataSensitivity ==
  (calls = 3 /\ flip.where \in {"ad", "ct"} /\ tag = second.tag
     /\ ~second.call.alias) => ~ret.verified

C4_Witness ==
  /\ calls = 3 /\ flip.where = "ad" /\ flip.bit = 7 /\ tag = second.tag
  /\ ~second.call.alias /\ call.build = "byte" /\ Len(msg) = MaxMsgLen
  /\ ~ret.verified

\* C5: the byte-parallel build and the bit-serial build, called on the same
\* input with distinct buffers, produce the same cipher text and the same tag;
\* the bit-serial call spends 14 clocks less, all of them in the padding.
C5_ParallelEquivalence ==
  (second.done /\ second.call.build = "bit" /\ ~second.call.alias) =>
    /\ second.enc = first.enc
    /\ second.tag = first.tag
    /\ first.clocks = second.clocks + 14

C5_Witness ==
  /\ second.done /\ second.call.build = "bit" /\ ~second.call.alias
  /\ Len(msg) = MaxMsgLen /\ Len(ad) = MaxAdLen
  /\ second.enc = first.enc /\ second.tag = first.tag /\ second.enc # msg

\* The all-zero input: zero key, zero nonce, no associated data, no message
ZeroInput ==
  key = Zeros(16) /\ nonce = Zeros(12) /\ ad = <<>> /\ msg = <<>>

\* C6 as stated: encrypt of the all-zero input produces no cipher text and the
\* tag 31 f6 07 60 26 a1 42 ac.
C6_ZeroInputTagAsStated ==
  (first.done /\ ZeroInput) =>
    (first.enc = <<>> /\ first.tag = <<49, 246, 7, 96, 38, 161, 66, 172>>)

\* C6: encrypt of the all-zero input produces no cipher text and the tag
\* 71 37 d5 99 8c 2d e4 a5.
C6_ZeroInputTag ==
  (first.done /\ ZeroInput) =>
    (first.enc = <<>> /\ first.tag = <<113, 55, 213, 153, 140, 45, 228, 165>>)

C6_Witness ==
  /\ first.done /\ ZeroInput /\ first.enc = <<>>
  /\ first.tag = <<113, 55, 213, 153, 140, 45, 228, 165>>

\* Cipher text and tag of the example of the README
ReadmeEnc ==
  <<28, 181, 237, 217, 174, 216, 19, 72, 223, 118, 173, 76, 25, 115, 34, 218,
     160, 236, 64, 249, 32, 32, 114, 93, 98, 253, 82, 237, 246, 25, 6, 201 >>
ReadmeTag == <<28, 180, 32, 18, 59, 148, 211, 167>>

\* C7: encrypt of the example of the README (either build, distinct buffers)
\* produces the cipher text and the tag the README prints.
C7_ReadmeKnownAnswer ==
  /\ (first.done /\ key = ReadmeKey /\ nonce = ReadmeNonce /\ ad = ReadmeData
        /\ msg = ReadmeText) =>
       (first.enc = ReadmeEnc /\ first.tag = ReadmeTag)
  /\ (second.done /\ ~second.call.alias /\ key = ReadmeKey /\ nonce = ReadmeNonce
        /\ ad = ReadmeData /\ msg = ReadmeText) =>
       (second.enc = ReadmeEnc /\ second.tag = ReadmeTag)

C7_Witness ==
  /\ second.done /\ ~second.call.alias /\ second.call.build = "bit"
  /\ key = ReadmeKey /\ nonce = ReadmeNonce /\ ad = ReadmeData /\ msg = ReadmeText
  /\ first.enc = ReadmeEnc /\ first.tag = ReadmeTag /\ second.tag = ReadmeTag

\* C8 as stated: encrypt with enc and txt the same buffer authenticates the
\* bytes of the message, so its tag is the tag of the call with distinct
\* buffers, and decrypt of its result verifies.
C8_InPlaceKeepsTag ==
  /\ (second.done /\ second.call.alias) =>
       (second.absorbed = first.absorbed \/ second.call.build = "bit")
       /\ second.tag = first.tag
  /\ (Honest /\ second.call.alias) => ret.verified

\* C9: encrypt with enc and txt the same buffer leaves in it the cipher text
\* that encrypt with distinct buffers produces.
C9_InPlaceKeepsCiphertext ==
  (calls = 2 /\ pc = "idle" /\ second.call.alias) =>
    (enc = first.enc /\ txt = first.enc /\ second.enc = first.enc)

C9_Witness ==
  /\ calls = 2 /\ pc = "idle" /\ second.call.alias /\ second.call.reload
  /\ second.call.build = "byte" /\ Len(msg) = MaxMsgLen
  /\ txt = first.enc /\ txt # msg

\* C10: with no associated data and no message, encrypt writes no cipher text
\* byte; its tag is the accumulator after the DER byte 0x00 and the padding
\* (the byte 0x01, or the single bit 1 of the bit-serial build) and nothing
\* else was absorbed; every call on the same key and nonce returns the same
\* tag, and decrypt given that tag returns true.
C10_EmptyInput ==
  (ad = <<>> /\ msg = <<>>) =>
    /\ (pc = "idle" /\ calls \in {1, 2}) =>
         /\ enc = <<>> /\ tag = st.acc /\ Len(tag) = 8
         /\ absorbed = IF call.build = "byte"
                       THEN Bits8(0) \o Bits8(padding)
                       ELSE Bits8(0) \o <<padding_bit>>
    /\ second.done => (second.enc = <<>> /\ second.tag = first.tag)
    /\ (calls = 3 /\ tag = second.tag) => ret.verified

C10_Witness ==
  /\ ad = <<>> /\ msg = <<>> /\ key = ReadmeKey
  /\ calls = 3 /\ tag = second.tag /\ ret.verified
  /\ second.call.build = "bit" /\ second.tag = first.tag

\* The indices a sequence of stores went to
Range(seq) == { seq[j] : j \in 1..Len(seq) }

\* The unit of the authenticated stream number n (0-based; a byte in the
\* byte-parallel build, a bit in the bit-serial build) has the pre-output bits
\* of clocks 2n and 2n + 1 after initialize for itself.  Bit n of the even
\* (keystream) and of the odd (authentication) half of the stream:
EvenBit(n) == stream[2 * n + 1]
OddBit(n)  == stream[2 * n + 2]

\* Keystream byte i of the call: the even pre-output bits of the 16 clocks
\* that follow those spent on the DER bytes, the associated data and the
\* text bytes before i
KeystreamByte(i) ==
  LET n == 8 * (der_len + Len(data) + i)
  IN  EvenBit(n) + 2 * EvenBit(n + 1) + 4 * EvenBit(n + 2) + 8 * EvenBit(n + 3)
      + 16 * EvenBit(n + 4) + 32 * EvenBit(n + 5) + 64 * EvenBit(n + 6)
      + 128 * EvenBit(n + 7)

\* C11: length fidelity.  When encrypt has returned, enc holds |msg| bytes,
\* byte i being msg[i] XOR keystream byte i; the call stored to the indices
\* 0 .. |msg| - 1 of enc and to no other, and to the 8 bytes of tag, which
\* equal acc.  When decrypt has returned it has stored to the indices
\* 0 .. |enc| - 1 of txt and to no other, and txt holds |enc| bytes.
C11_LengthFidelity ==
  /\ (pc = "idle" /\ calls \in {1, 2}) =>
       /\ Len(enc) = Len(msg)
       /\ \A i \in 0..(Len(msg) - 1) : At(enc, i) = Xor8(At(msg, i), KeystreamByte(i))
       /\ Range(writes.enc) = 0..(Len(msg) - 1)
       /\ Len(writes.enc) = Iterations(Len(msg))
       /\ writes.tag = <<0, 1, 2, 3, 4, 5, 6, 7>> /\ Len(tag) = 8 /\ tag = st.acc
  /\ calls = 3 =>
       /\ Len(txt) = Len(enc) /\ Len(enc) = Len(msg)
       /\ Range(writes.txt) = 0..(Len(enc) - 1)
       /\ writes.enc = <<>> /\ writes.tag = <<>>

C11_Witness ==
  /\ pc = "idle" /\ calls = 2 /\ call.build = "bit" /\ ~call.alias
  /\ Len(msg) = MaxMsgLen /\ Len(ad) = MaxAdLen /\ Len(enc) = MaxMsgLen
  /\ At(enc, MaxMsgLen - 1) = Xor8(At(msg, MaxMsgLen - 1), KeystreamByte(MaxMsgLen - 1))
  /\ KeystreamByte(MaxMsgLen - 1) # 0
  /\ Len(writes.enc) = 8 * MaxMsgLen

\* What the channel delivered of a buffer the sender holds as buf
Delivered(buf, where) ==
  IF flip.where = where
  THEN [buf EXCEPT ![flip.byte + 1] = Xor8(@, Pow2[flip.bit + 1])]
  ELSE buf

\* The bytes of a buffer that hold a value, as indices of the code
Written(buf) == { j - 1 : j \in { n \in 1..Len(buf) : buf[n] # Undef } }

\* What a call with distinct buffers leaves alone, as a state predicate
Frame ==
  /\ (call.op = "encrypt" /\ ~call.alias) =>
       /\ data = ad /\ txt = msg /\ writes.txt = <<>>
       /\ Range(writes.enc) \subseteq 0..(Len(msg) - 1)
       /\ Written(enc) \subseteq Range(writes.enc)
       /\ Range(writes.tag) \subseteq 0..7
       /\ Written(tag) \subseteq Range(writes.tag)
  /\ call.op = "decrypt" =>
       /\ data = Delivered(ad, "ad") /\ enc = Delivered(second.enc, "ct")
       /\ writes.enc = <<>> /\ writes.tag = <<>>
       /\ Range(writes.txt) \subseteq 0..(Len(enc) - 1)
       /\ Written(txt) \subseteq Range(writes.txt)
       /\ pc # "idle" => tag = Fill(8, Undef)

\* C13: inputs are left unchanged.  No step of a call changes key or nonce;
\* encrypt with distinct buffers leaves data and txt as the caller passed
\* them and stores only to enc[0..ctlen) and tag[0..8); decrypt leaves data,
\* enc and tag as the channel delivered them and stores only to txt[0..ctlen).
C13_InputsUnchanged ==
  [][key' = key /\ nonce' = nonce /\ ad' = ad /\ msg' = msg /\ Frame']_vars

C13_Witness ==
  /\ calls = 3 /\ ~second.call.alias /\ second.call.build = "byte" /\ ret.verified
  /\ Len(msg) = MaxMsgLen /\ Len(ad) = MaxAdLen
  /\ data = ad /\ enc = second.enc /\ enc # msg /\ txt = msg /\ tag = second.tag
  /\ Len(writes.txt) = MaxMsgLen /\ writes.enc = <<>>

\* The bits of a sequence of bytes, byte 0 first, least significant bit first
BitsOf(bytes) ==
  [j \in 1..(8 * Len(bytes)) |-> Bits8(bytes[((j - 1) \div 8) + 1])[((j - 1) % 8) + 1]]

\* DER(n) as the specification defines it: one byte below 128, otherwise
\* 0x80 | k followed by the k bytes of n, most significant first
DerOf(n) ==
  IF n < 128 THEN <<n>>
  ELSE LET k == CHOOSE c \in 1..8 : Pow256(c - 1) <= n /\ (c = 8 \/ n < Pow256(c))
       IN  <<128 + k>> \o [j \in 1..k |-> (n \div Pow256(k - j)) % 256]

\* The plain text of the call: the message in encrypt, what the key stream
\* recovers from the delivered cipher text in decrypt
PlainText == IF call.op = "decrypt" THEN Recovered ELSE msg

\* The call has absorbed its padding
Absorbed == call.op # "none" /\ pc \in {"finish", "idle"}

\* The one case in which the text function does not authenticate the bytes of
\* the message: enc == txt in a byte-parallel build that reads txt[i] again
\* after the store to enc[i]
ReadsBack == call.build = "byte" /\ call.alias /\ call.reload

Phases(op) ==
  << "initialize", "auth_associated_data",
     IF op = "encrypt" THEN "enc_and_auth_txt" ELSE "dec_and_auth_txt",
     "auth_padding_bit",
     IF op = "encrypt" THEN "memcpy" ELSE "compare" >>

\* How many of them a call at loop p has entered
PhasesAt(p) ==
  IF p \in {"mix", "key", "acc", "sreg"} THEN 1
  ELSE IF p \in {"aad", "der", "data"} THEN 2
  ELSE IF p = "text" THEN 3
  ELSE IF p \in {"pad", "finish"} THEN 4
  ELSE 5

\* The call in progress has done what its loop implies, and nothing later
PhaseOrder ==
  call.op # "none" =>
    /\ phases = SubSeq(Phases(call.op), 1, PhasesAt(pc))
    /\ pc \in {"mix", "key", "acc", "sreg"} =>
         (absorbed = <<>> /\ stream = <<>> /\ clocks < 512)
    /\ pc \notin {"mix", "key", "acc", "sreg"} => clocks >= 512
    /\ pc = "aad" => (clocks = 512 /\ absorbed = <<>>)
    /\ pc \notin {"text", "pad", "finish", "idle"} =>
         (writes.enc = <<>> /\ writes.txt = <<>>)
    /\ pc \in {"finish", "idle"} =>
         (absorbed # <<>>
            /\ (call.build = "bit" => absorbed[Len(absorbed)] = 1)
            /\ (call.build = "byte" =>
                   SubSeq(absorbed, Len(absorbed) - 7, Len(absorbed)) = Bits8(1)))
    /\ pc # "idle" =>
         (tag = Fill(8, Undef) /\ writes.tag = <<>>
            /\ (call.op = "decrypt" => ret = NoRet))
    /\ (pc = "idle" /\ call.op = "encrypt") => tag = st.acc
    /\ (pc = "idle" /\ call.op = "decrypt") => ret.verified = (tag = st.acc)

\* C18: phase order.  In every call, whatever the lengths, initialize,
\* auth_associated_data, enc_and_auth_txt / dec_and_auth_txt,
\* auth_padding_bit and the copy or comparison of acc are entered once each,
\* in that order; nothing is absorbed before the 512 clocks of initialize and
\* no text byte is stored before auth_associated_data has returned; the tag
\* is written or compared in the one step that follows the padding, and the
\* next call starts from a state_t that holds nothing of this one.
C18_PhaseOrder ==
  [][ /\ PhaseOrder'
      /\ (tag' # tag /\ pc # "idle") => (pc = "finish" /\ pc' = "idle")
      /\ (ret' # ret) => (pc = "finish" /\ pc' = "idle" /\ call.op = "decrypt")
      /\ pc = "idle" =>
           (pc' = "mix" /\ st'.acc = Fill(8, Undef) /\ st'.sreg = Fill(8, Undef)
              /\ st'.nfsr = key /\ SubSeq(st'.lfsr, 1, 12) = nonce) ]_vars

C18_Witness ==
  /\ calls = 3 /\ ad = <<>> /\ msg = <<>> /\ call.build = "bit" /\ ret.verified
  /\ phases = << "initialize", "auth_associated_data", "dec_and_auth_txt",
                  "auth_padding_bit", "compare" >>
  /\ clocks = 512 + 16 + 2

\* The call is in initialize, or has just left it
Initializing == call.op # "none" /\ pc \in {"mix", "key", "acc", "sreg", "aad"}

\* C15: initialization schedule.  initialize starts from nfsr = key and
\* lfsr = nonce || ff ff ff 7f, makes 320 clocks in 40 steps, 64 in 8, 64 in 8
\* and 64 in 8, 512 in all, and after each step its lfsr and nfsr are those of
\* the cipher clocked one bit at a time with the overlays of the
\* specification: the pre-output bit in both registers for clocks 0..319, the
\* pre-output bit XOR key bit t - 320 + 64 (LFSR) and key bit t - 320 (NFSR)
\* for clocks 320..383, nothing for clocks 384..511.
C15_InitSchedule ==
  Initializing =>
    /\ clocks = (IF pc = "mix" THEN 8 * pos
                 ELSE IF pc = "key" THEN 320 + 8 * pos
                 ELSE IF pc = "acc" THEN 384 + 8 * pos
                 ELSE IF pc = "sreg" THEN 448 + 8 * pos
                 ELSE 512)
    /\ clocks = 0 => (st.nfsr = key /\ st.lfsr = nonce \o <<255, 255, 255, 127>>)
    /\ CaughtUp => (st.lfsr = ref.lfsr /\ st.nfsr = ref.nfsr)

C15_Witness ==
  /\ Initializing /\ pc = "aad" /\ ref.t = 512 /\ key = ReadmeKey
  /\ st.lfsr = ref.lfsr /\ st.nfsr = ref.nfsr /\ st.nfsr # key

\* The 8 bytes made of the 64 bits of ys that follow its first `from` bits,
\* the first bit being the least significant bit of byte 0
Pack(ys, from) ==
  [j \in 1..8 |->
     LET n == from + 8 * (j - 1)
     IN  ys[n + 1] + 2 * ys[n + 2] + 4 * ys[n + 3] + 8 * ys[n + 4] + 16 * ys[n + 5]
         + 32 * ys[n + 6] + 64 * ys[n + 7] + 128 * ys[n + 8]]

\* The stores initialize is to make into acc and sreg: byte j of acc at clock
\* 384 + 8j, byte j of sreg at clock 448 + 8j
Seeding ==
  [j \in 1..16 |->
     IF j <= 8 THEN [reg |-> "acc", at |-> j - 1, clock |-> 384 + 8 * (j - 1)]
     ELSE [reg |-> "sreg", at |-> j - 9, clock |-> 448 + 8 * (j - 9)]]

\* C20: authenticator seeding.  The stores of initialize into acc and sreg
\* are, in order, acc[0..7] at clocks 384, 392, .. 440 and sreg[0..7] at clocks
\* 448, 456, .. 504, one store per byte, none before clock 384; a byte not yet
\* stored holds nothing; when initialize returns acc holds the pre-output bits
\* of clocks 384..447 and sreg those of clocks 448..511 of the cipher clocked
\* one bit at a time, first bit in the least significant bit of byte 0.
C20_AuthenticatorSeeding ==
  Initializing =>
    /\ seeded = SubSeq(Seeding, 1, Len(seeded))
    /\ Len(seeded) = (IF pc = "acc" THEN pos ELSE IF pc = "sreg" THEN 8 + pos
                      ELSE IF pc = "aad" THEN 16 ELSE 0)
    /\ \A j \in 1..16 :
         (j > Len(seeded)) => (IF j <= 8 THEN st.acc[j] ELSE st.sreg[j - 8]) = Undef
    /\ (pc = "aad" /\ CaughtUp) =>
         (st.acc = Pack(ref.y, 384) /\ st.sreg = Pack(ref.y, 448))

C20_Witness ==
  /\ Initializing /\ pc = "aad" /\ ref.t = 512 /\ key = ReadmeKey
  /\ Len(seeded) = 16 /\ st.acc = Pack(ref.y, 384) /\ st.sreg = Pack(ref.y, 448)
  /\ st.acc # st.sreg /\ st.acc # Fill(8, 0)

\* The byte whose bit k is bits[k + 1]
ByteOf(bits) ==
  bits[1] + 2 * bits[2] + 4 * bits[3] + 8 * bits[4] + 16 * bits[5] + 32 * bits[6]
  + 64 * bits[7] + 128 * bits[8]

\* C14: the 8-wide clock equals 8 single-bit clocks.  From every register
\* state tried and for every overlay tried (none, a byte per register, the
\* pre-output bits themselves, the pre-output bits XOR a byte per register),
\* ksb8 followed by update8 of l8 and f8 XOR the overlays leaves the lfsr and
\* nfsr that 8 clocks of ksb, l, f and update leave, overlay bit k applied at
\* clock k, and bit k of the pre-output byte is the pre-output bit of clock k.
C14_WideClock ==
  (lab.test = "clock" /\ lab.k = 8) =>
    /\ lab.narrow.lfsr = lab.wide.lfsr
    /\ lab.narrow.nfsr = lab.wide.nfsr
    /\ ByteOf(lab.ys) = lab.y
    /\ lab.narrow.acc = lab.s.acc /\ lab.narrow.sreg = lab.s.sreg
    /\ lab.wide.acc = lab.s.acc /\ lab.wide.sreg = lab.s.sreg

C14_Witness ==
  /\ lab.test = "clock" /\ lab.k = 8 /\ lab.mixed = 40
  /\ lab.o.fb /\ lab.o.ovl = 165 /\ lab.y \notin {0, 255}
  /\ lab.narrow.lfsr = lab.wide.lfsr /\ lab.narrow.nfsr = lab.wide.nfsr
  /\ lab.wide.nfsr # lab.s.nfsr /\ Tail(lab.s.lfsr) # Tail(lab.s.nfsr)

\* C16: the byte authenticator equals eight bit steps.  From every acc and
\* sreg tried and for every message byte and authentication byte tried,
\* authenticated_byte leaves the acc and sreg that update_accumulator on bit i
\* of the message byte followed by update_register on bit i of the
\* authentication byte, for i = 0 .. 7 in that order, leave.
C16_ByteAuthenticator ==
  (lab.test = "auth" /\ lab.k = 8) =>
    /\ lab.narrow.acc = lab.wide.acc
    /\ lab.narrow.sreg = lab.wide.sreg
    /\ lab.wide.lfsr = lab.s.lfsr /\ lab.wide.nfsr = lab.s.nfsr

C16_Witness ==
  /\ lab.test = "auth" /\ lab.k = 8 /\ lab.mixed = 40
  /\ lab.mb = 165 /\ lab.ka = 165
  /\ lab.narrow.acc = lab.wide.acc /\ lab.narrow.sreg = lab.wide.sreg
  /\ lab.wide.acc # lab.s.acc /\ lab.wide.sreg # lab.s.sreg

\* Bit n of a register: bit n % 8 of byte n \div 8
RegBit(reg, n) == (reg[(n \div 8) + 1] \div Pow2[(n % 8) + 1]) % 2

\* XOR of the bits of a register at the indices of a set
RECURSIVE XorTaps(_, _)
XorTaps(reg, taps) ==
  IF taps = {} THEN 0
  ELSE LET n == CHOOSE x \in taps : TRUE
       IN  (RegBit(reg, n) + XorTaps(reg, taps \ {n})) % 2

\* AND of the bits of a register at the indices of a set
AndTaps(reg, taps) == IF \A n \in taps : RegBit(reg, n) = 1 THEN 1 ELSE 0

\* h = x0 x1 + x2 x3 + x4 x5 + x6 x7 + x0 x4 x8 over NFSR12, LFSR8, LFSR13,
\* LFSR20, NFSR95, LFSR42, LFSR60, LFSR79, LFSR94
TapH(s) ==
  ( RegBit(s.nfsr, 12) * RegBit(s.lfsr, 8) + RegBit(s.lfsr, 13) * RegBit(s.lfsr, 20)
    + RegBit(s.nfsr, 95) * RegBit(s.lfsr, 42) + RegBit(s.lfsr, 60) * RegBit(s.lfsr, 79)
    + RegBit(s.nfsr, 12) * RegBit(s.nfsr, 95) * RegBit(s.lfsr, 94) ) % 2

TapY(s) ==
  (TapH(s) + RegBit(s.lfsr, 93) + XorTaps(s.nfsr, {2, 15, 36, 45, 64, 73, 89})) % 2

TapL(s) == XorTaps(s.lfsr, {0, 7, 38, 70, 81, 96})

TapF(s) ==
  ( RegBit(s.lfsr, 0) + XorTaps(s.nfsr, {0, 26, 56, 91, 96})
    + AndTaps(s.nfsr, {3, 67}) + AndTaps(s.nfsr, {11, 13}) + AndTaps(s.nfsr, {17, 18})
    + AndTaps(s.nfsr, {27, 59}) + AndTaps(s.nfsr, {40, 48}) + AndTaps(s.nfsr, {61, 65})
    + AndTaps(s.nfsr, {68, 84})
    + AndTaps(s.nfsr, {22, 24, 25}) + AndTaps(s.nfsr, {70, 78, 82})
    + AndTaps(s.nfsr, {88, 92, 93, 95}) ) % 2

\* update shifts every bit n + 1 to n and places the new bit at 127
Shifts(reg, bit) ==
  \E shifted \in {update(reg, bit)} :
    /\ Len(shifted) = 16
    /\ \A n \in 0..126 : RegBit(shifted, n) = RegBit(reg, n + 1)
    /\ RegBit(shifted, 127) = bit

\* C19: the tap functions are the listed ones.  On every lfsr and nfsr the
\* single-bit clocks pass through, h, ksb, l and f return the values of the
\* formulas over the listed taps, and update, for either new bit and either
\* register, moves every bit n + 1 to n and places the new bit at index 127.
C19_TapFunctions ==
  lab.test # "none" =>
    /\ h(lab.narrow) = TapH(lab.narrow)
    /\ ksb(lab.narrow) = TapY(lab.narrow)
    /\ l(lab.narrow) = TapL(lab.narrow)
    /\ f(lab.narrow) = TapF(lab.narrow)
    /\ \A bit \in {0, 1} : Shifts(lab.narrow.lfsr, bit) /\ Shifts(lab.narrow.nfsr, bit)

C19_Witness ==
  /\ lab.test = "clock" /\ lab.k \in 1..7
  /\ h(lab.narrow) = 1 /\ ksb(lab.narrow) = 0 /\ f(lab.narrow) = 1
  /\ AndTaps(lab.narrow.nfsr, {88, 92, 93, 95}) = 1
  /\ AndTaps(lab.narrow.nfsr, {22, 24, 25}) = 0
  /\ RegBit(lab.narrow.lfsr, 70) # RegBit(lab.narrow.lfsr, 69)

\* C12: calls do not disturb one another.  Two threads make their calls side
\* by side, in every interleaving of the iterations of their loops, each on
\* buffers of its own and on the state_t of its own frame, which still holds
\* what the call before left in it.  Every call that has returned has returned
\* what the same call returned when it ran alone on a frame nothing was written
\* to, and the state_t a call under way works on was written last by that call.
C12_CallIsolation ==
  threads # <<>> /\ threads.mode = "together" =>
    \A t \in DOMAIN threads.of :
      /\ \A n \in 1..Len(threads.of[t].out) :
           threads.of[t].out[n] = threads.of[t].alone[n]
      /\ Calling(threads.of[t]) => stack[frame_of(t)].by = <<t, threads.of[t].n>>

C12_Witness ==
  /\ threads # <<>> /\ threads.mode = "together" /\ threads.overlapped
  /\ threads.of[1].pc = "done" /\ threads.of[2].pc = "done"
  /\ Len(threads.of[1].out) = 2 /\ threads.of[1].out = threads.of[1].alone
  /\ threads.of[1].out[2].verified /\ threads.of[1].out[2].txt = threads.in[1].msg
  /\ threads.of[1].out[1].enc # threads.in[1].msg
  /\ threads.of[2].out = threads.of[2].alone
  /\ threads.of[2].out[1].tag # threads.of[1].out[1].tag
  /\ stack[1].st # stack[2].st

\* C21: split_bits deinterleaves.  For every pair of bytes first, second, with
\* the 16 pre-output bits of the window being the bits of first followed by the
\* bits of second, bit j of the even byte is bit 2j of the window and bit j of
\* the odd byte is bit 2j + 1, for j = 0 .. 7.
C21_Deinterleave ==
  lab.test = "split_bits" =>
    \E window \in {Bits8(lab.first) \o Bits8(lab.second)} :
      \A j \in 0..7 :
        /\ Bits8(lab.even)[j + 1] = window[2 * j + 1]
        /\ Bits8(lab.odd)[j + 1] = window[2 * j + 2]

C21_Witness ==
  /\ lab.test = "split_bits"
  /\ lab.first = 27 /\ lab.second = 228
  /\ lab.even = 165 /\ lab.odd = 195

\* The number the bytes der[from .. to] are, most significant first
RECURSIVE BigEndian(_, _, _)
BigEndian(der_, from, to) ==
  IF from > to THEN 0 ELSE 256 * BigEndian(der_, from, to - 1) + At(der_, to)

\* The number of bytes of a length given as its 8 bytes: the place of the
\* most significant byte that is not 0
BytesOf(d) ==
  IF \A i \in 1..8 : d[i] = 0 THEN 0
  ELSE CHOOSE n \in 1..8 : d[n] # 0 /\ \A j \in (n + 1)..8 : d[j] = 0

\* C22: the DER encoding of the length.  For lengths below 128 encode_der
\* returns 1 and der[0] is the length.  For the others it returns n + 1, n the
\* number of bytes of the length, at most 8; der[0] is 0x80 | n and der[1..n]
\* are the bytes of the length, most significant first.  127 gives 7f, 128
\* gives 81 80, 200 gives 81 c8, 256 gives 82 01 00.  Every byte after the
\* returned length is 0 and every index written lies in 0 .. 8.
C22_DerLength ==
  /\ lab.test = "encode_der" =>
       /\ \A i \in lab.len..8 : At(lab.der, i) = 0
       /\ lab.dlen < 128 => lab.len = 1 /\ At(lab.der, 0) = lab.dlen
       /\ lab.dlen >= 128 =>
            /\ lab.len \in 2..9
            /\ At(lab.der, 0) = 128 + (lab.len - 1)
            /\ At(lab.der, 1) # 0
            /\ BigEndian(lab.der, 1, lab.len - 1) = lab.dlen
       /\ lab.dlen = 127 => lab.der = <<127, 0, 0, 0, 0, 0, 0, 0, 0>>
       /\ lab.dlen = 128 => lab.der = <<129, 128, 0, 0, 0, 0, 0, 0, 0>>
       /\ lab.dlen = 200 => lab.der = <<129, 200, 0, 0, 0, 0, 0, 0, 0>>
       /\ lab.dlen = 256 => lab.der = <<130, 1, 0, 0, 0, 0, 0, 0, 0>>
  /\ lab.test = "encode_der64" =>
       \E n \in {BytesOf(lab.d)} :
         /\ \A i \in lab.len..8 : At(lab.der, i) = 0
         /\ \A i \in 1..Len(lab.wrote) : lab.wrote[i] \in 0..8
         /\ (n <= 1 /\ lab.d[1] < 128) => lab.len = 1 /\ At(lab.der, 0) = lab.d[1]
         /\ ~(n <= 1 /\ lab.d[1] < 128) =>
              /\ lab.len = n + 1 /\ n <= 8
              /\ At(lab.der, 0) = 128 + n
              /\ \A i \in 1..n : At(lab.der, i) = lab.d[n - i + 1]

C22_Witness ==
  /\ lab.test = "encode_der64"
  /\ lab.d = <<255, 255, 255, 255, 255, 255, 255, 255>>
  /\ lab.len = 9
  /\ lab.der = <<136, 255, 255, 255, 255, 255, 255, 255, 255>>

\* Byte by byte XOR of two byte arrays of one length
XorBytes(a, b) == [i \in 1..Len(a) |-> Xor8(a[i], b[i])]

\* The registers after n 8-wide clocks without overlay (n = 2 here)
Clocked16(s) == Only({ Clock8(once, 0, 0) : once \in {Clock8(s, 0, 0)} })

\* The registers after two single-bit clocks without overlay
Clocked2(s) ==
  Only({ update_nfsr(update_lfsr(once, l(once)), f(once))
         : once \in {update_nfsr(update_lfsr(s, l(s)), f(s))} })

\* C23: the padding.  The step that absorbs the padding changes acc by an XOR
\* with sreg as it was before the step, which is what update_accumulator makes
\* of the single message bit 1: the seven zero bits of the padding byte change
\* nothing.  The step clocks lfsr and nfsr: 16 clocks in the byte-parallel
\* build, 2 in the bit-serial build.
C23_Padding ==
  [][(pc = "pad" /\ pc' = "finish") =>
       /\ st'.acc = XorBytes(st.acc, st.sreg)
       /\ st'.acc = update_accumulator(st, 1).acc
       /\ call.build = "byte" =>
            /\ st'.lfsr = Clocked16(st).lfsr /\ st'.nfsr = Clocked16(st).nfsr
            /\ clocks' = clocks + 16
       /\ call.build = "bit" =>
            /\ st'.lfsr = Clocked2(st).lfsr /\ st'.nfsr = Clocked2(st).nfsr
            /\ clocks' = clocks + 2
       /\ st'.lfsr # st.lfsr /\ st'.nfsr # st.nfsr]_vars

C23_Witness ==
  /\ pc = "finish" /\ call.op = "encrypt" /\ call.build = "byte"
  /\ Len(msg) = MaxMsgLen /\ Len(ad) = MaxAdLen
  /\ st.acc # Fill(8, 0) /\ st.sreg # Fill(8, 0)
  /\ absorbed[Len(absorbed) - 7] = 1
  /\ \A i \in (Len(absorbed) - 6)..Len(absorbed) : absorbed[i] = 0

\* C24: the keystream does not depend on the data.  Two encrypt calls with
\* one key and nonce and with associated data of one length and messages of
\* one length, whatever their bytes, have the same lfsr and nfsr whenever
\* they have taken the same steps, and the XOR of their cipher texts is the
\* XOR of their messages.
C24_KeystreamIndependence ==
  (threads # <<>> /\ threads.mode = "in step") =>
    /\ Place(threads.of[1]) = Place(threads.of[2]) =>
         /\ stack[1].st.lfsr = stack[2].st.lfsr
         /\ stack[1].st.nfsr = stack[2].st.nfsr
    /\ (threads.of[1].pc = "done" /\ threads.of[2].pc = "done") =>
         XorBytes(threads.of[1].out[1].enc, threads.of[2].out[1].enc)
           = XorBytes(threads.in[1].msg, threads.in[2].msg)

C24_Witness ==
  /\ threads # <<>> /\ threads.mode = "in step"
  /\ threads.of[1].pc = "done" /\ threads.of[2].pc = "done"
  /\ Len(threads.in[1].ad) = MaxAdLen /\ threads.in[1].ad # threads.in[2].ad
  /\ Len(threads.in[1].msg) = MaxMsgLen /\ threads.in[1].msg # threads.in[2].msg
  /\ threads.in[2].msg # Fill(MaxMsgLen, 0)
  /\ threads.of[1].out[1].enc # threads.of[2].out[1].enc
  /\ threads.of[1].out[1].tag # threads.of[2].out[1].tag
  /\ stack[1].st.lfsr = stack[2].st.lfsr /\ stack[1].st.acc # stack[2].st.acc

\* C25: the tag is compared without early exit.  Whatever tag decrypt finds,
\* its loop compares the bytes 0, 1, .. 7 in that order, the verdict is that
\* no byte of the accumulator differs from the tag's, and on a mismatch every
\* one of the ctlen bytes of txt is set to 0.
C25_FullComparison ==
  ret.done =>
    /\ ret.visited = <<0, 1, 2, 3, 4, 5, 6, 7>>
    /\ ret.verified = (\A j \in 0..7 : At(st.acc, j) = At(tag, j))
    /\ ~ret.verified =>
         /\ ret.txt = Fill(Len(enc), 0) /\ txt = ret.txt
         /\ ret.wiped = [j \in 1..Len(enc) |-> j - 1]
    /\ ret.verified => ret.wiped = <<>>

C25_Witness ==
  /\ ret.done /\ ~ret.verified
  /\ flip.where = "tag" /\ flip.byte = 0
  /\ At(st.acc, 0) # At(tag, 0) /\ \A j \in 1..7 : At(st.acc, j) = At(tag, j)
  /\ ret.visited = <<0, 1, 2, 3, 4, 5, 6, 7>>
  /\ Len(ret.wiped) = MaxMsgLen

\* C26: the 32-bit window read.  For every 16-byte register and every start
\* index sidx with sidx + 31 <= 127, get_32bits returns the value whose bit k
\* is bit sidx + k of the register, k = 0 .. 31, shifts a uint32_t by less
\* than 32 only, and reads no byte outside arr[0 .. 15].
C26_WindowRead ==
  lab.test = "get_32bits" =>
    /\ \A k \in 0..31 : lab.res[k + 1] = RegBit(lab.arr, lab.sidx + k)
    /\ \A i \in 1..Len(lab.shifts) : lab.shifts[i] < 32
    /\ \A i \in 1..Len(lab.reads) : lab.reads[i] \in 0..15

\* C27: no length wrap-around.  For every length of 0 .. 2^64-1 the loop
\* bound len << 3 of the bit-serial absorber is 8 * len: its low three bits
\* are 0, bit k + 3 of the bound is bit k of the length, and no bit of the
\* length is lost, so the bound is 8 times the length encode_der encoded.
C27_NoWrapAround ==
  lab.test = "bit_length" =>
    /\ \A k \in 0..2 : RegBit(lab.blen, k) = 0
    /\ \A k \in 0..60 : RegBit(lab.blen, k + 3) = RegBit(lab.d, k)
    /\ \A k \in 61..63 : RegBit(lab.d, k) = 0
    /\ \A i \in 1..(lab.len - 1) :
         lab.len > 1 => At(lab.der, i) = lab.d[(lab.len - 1) - i + 1]

\* A register with bit n inverted
Flipped(reg, n) == [reg EXCEPT ![(n \div 8) + 1] = Xor8(@, Pow2[(n % 8) + 1])]

\* A register j clocks later: bit n is bit n + j of reg, and the j bits
\* produced by those clocks, at indices 128 - j .. 127, are all fill
Later(reg, j, fill) ==
  [b \in 1..16 |->
     ByteOf([i \in 1..8 |-> IF 8 * (b - 1) + (i - 1) + j <= 127
                             THEN RegBit(reg, 8 * (b - 1) + (i - 1) + j)
                             ELSE fill])]

\* The state j clocks later, the bits produced since being fill
LaterState(s, j, fill) ==
  [s EXCEPT !.lfsr = Later(s.lfsr, j, fill), !.nfsr = Later(s.nfsr, j, fill)]

\* The bits of a register inside the 8-bit windows starting at the indices
\* of a set
Covered(windows) == { t + j : t \in windows, j \in 0..7 }

\* h8, ksb8, l8 and f8 of a state, together
Wide(s) == <<h8(s), ksb8(s), l8(s), f8(s)>>

\* h, ksb, l and f of a state, together
Narrow(s) == <<h(s), ksb(s), l(s), f(s)>>

\* C28: the tap window bound.  Every index get_8bits is called with by h8,
\* ksb8, l8 and f8 is at most 96, which is 127 - N + 1 for N = 32 and below
\* it for N = 8 and N = 1, so that the window lies inside bits 0 .. 127 and in
\* bytes 0 .. 15.  The 8-wide functions read nothing outside these windows:
\* inverting any other bit of the lfsr or the nfsr changes none of them.  Bit j
\* of each 8-wide function is the single-bit function of the registers j
\* clocks later whatever the bits produced by those clocks are, and for up to
\* 32 clocks the single-bit functions do not depend on the bits produced.
C28_TapWindowBound ==
  lab.test = "start" =>
    /\ \A t \in lfsr_windows \cup nfsr_windows :
         /\ t <= 127 - 32 + 1 /\ t <= 127 - 8 + 1 /\ t <= 127 - 1 + 1
         /\ compute_index(t + 7)[1] \in 0..15
    /\ 96 \in lfsr_windows /\ 96 \in nfsr_windows
    /\ \A n \in (0..127) \ Covered(lfsr_windows) :
         Wide([lab.s EXCEPT !.lfsr = Flipped(@, n)]) = Wide(lab.s)
    /\ \A n \in (0..127) \ Covered(nfsr_windows) :
         Wide([lab.s EXCEPT !.nfsr = Flipped(@, n)]) = Wide(lab.s)
    /\ \A j \in 0..7 : \A fill \in {0, 1} :
         \A i \in 1..4 :
           Bits8(Wide(lab.s)[i])[j + 1] = Narrow(LaterState(lab.s, j, fill))[i]
    /\ \A j \in 0..31 :
         Narrow(LaterState(lab.s, j, 0)) = Narrow(LaterState(lab.s, j, 1))

C28_Witness ==
  /\ lab.test = "start" /\ lab.mixed = 40
  /\ get_8bits(lab.s.lfsr, 96) \notin {0, 255}
  /\ get_8bits(lab.s.nfsr, 96) \notin {0, 255}
  /\ l8(lab.s) \notin {0, 255} /\ f8(lab.s) \notin {0, 255}
  /\ Later(lab.s.lfsr, 31, 0) # Later(lab.s.lfsr, 31, 1)
  /\ RegBit(Later(lab.s.lfsr, 31, 1), 96) = RegBit(lab.s.lfsr, 127)

\* The associated data and the message read back from the bytes a call gave
\* to the authenticator: the first byte, below 128, is the length of the
\* associated data, which follows; the message is what remains before the
\* last byte
Parsed(fed) ==
  [ad |-> SubSeq(fed, 2, 1 + fed[1]), msg |-> SubSeq(fed, 2 + fed[1], Len(fed) - 1)]

\* C29: the authenticated stream is unambiguous.  Two encrypt calls that gave
\* the same bytes to the authenticator had the same associated data and the
\* same message; the bytes of each call begin with the length of its
\* associated data, end with 0x01, and the associated data and the message
\* can be read back from them.  ad = [x], msg = [] and ad = [], msg = [x]
\* give different bytes.
C29_UnambiguousStream ==
  (/\ threads # <<>> /\ threads.mode = "alone"
   /\ \A t \in 1..2 : threads.of[t].pc = "done") =>
    /\ threads.of[1].fed = threads.of[2].fed =>
         /\ threads.in[1].ad = threads.in[2].ad
         /\ threads.in[1].msg = threads.in[2].msg
    /\ \A t \in 1..2 :
         \E fed \in {threads.of[t].fed} :
           /\ Len(fed) = 1 + Len(threads.in[t].ad) + Len(threads.in[t].msg) + 1
           /\ fed[1] = Len(threads.in[t].ad) /\ fed[Len(fed)] = 1
           /\ Parsed(fed).ad = threads.in[t].ad
           /\ Parsed(fed).msg = threads.in[t].msg

C29_Witness ==
  /\ threads # <<>> /\ threads.mode = "alone"
  /\ \A t \in 1..2 : threads.of[t].pc = "done"
  /\ Len(threads.in[1].ad) = 1 /\ threads.in[1].msg = <<>>
  /\ threads.in[2].ad = <<>> /\ threads.in[2].msg = threads.in[1].ad
  /\ Len(threads.of[1].fed) = 3 /\ Len(threads.of[2].fed) = 3
  /\ threads.of[1].fed # threads.of[2].fed
  /\ Tail(threads.of[1].fed) = Tail(threads.of[2].fed)

\* The bit-clocks of a call of the byte-parallel build on associated data of
\* dlen bytes and a text of ctlen bytes, the DER prefix having n bytes
ByteClocks(n, dlen, ctlen) == 512 + 16 * (n + dlen + ctlen + 1)

\* C30: termination.  Every encrypt and decrypt call that has begun returns;
\* decrypt returns with a verdict; and a call of the byte-parallel build has
\* made exactly 512 + 16 * (len(DER(|ad|)) + |ad| + |msg| + 1) bit-clocks when
\* it returns, and fewer at every moment before.
C30_Termination ==
  /\ (pc # "idle") ~> (pc = "idle" /\ calls > 0 /\ (call.op = "decrypt" => ret.done))
  /\ [](call.build = "byte" =>
          /\ pc = "idle" /\ calls > 0 =>
               clocks = ByteClocks(der_len, Len(ad), Len(msg))
          /\ pc \notin {"idle", "finish"} =>
               clocks < ByteClocks(Len(DerOf(Len(ad))), Len(ad), Len(msg)))

C30_Witness ==
  /\ pc = "idle" /\ calls = 3 /\ call.build = "byte"
  /\ ret.done /\ ~ret.verified /\ flip.where = "ct"
  /\ Len(ad) = MaxAdLen /\ Len(msg) = MaxMsgLen
  /\ clocks = 512 + 16 * (1 + MaxAdLen + MaxMsgLen + 1)
  /\ first.clocks = clocks

====
